---------------------------- MODULE Spec2Model ----------------------------
(***************************************************************************)
(* health-cli: mock health-data generators, trend analytics and the Apple  *)
(* Health XML structural scanner, as state machines.                       *)
(*                                                                         *)
(* The tool is invoked once per process: a behaviour is one invocation.    *)
(* pc = "start" holds the inputs and the environment (clock, time zone,    *)
(* random source, file), one action runs a whole handler, pc = "done"      *)
(* holds what the handler returned.  SpecImport runs health import,        *)
(* SpecCmd health hrv and health sleep, SpecGen the two generators,        *)
(* SpecTrend the two trend functions on series of their own, SpecStatus    *)
(* health status and health alert on snapshots, SpecSleep the sleep        *)
(* analytics on series of nights, SpecScan the scanner on documents of     *)
(* many records, and SpecCli the process from its command line to its      *)
(* exit, for both entry points.                                            *)
(*                                                                         *)
(* Representation.                                                         *)
(*   - Text is a TLA+ string; regular expressions are modelled by the      *)
(*     search they perform on the characters.                              *)
(*   - JavaScript numbers are exact fractions n / d; the rounding error    *)
(*     of IEEE-754 arithmetic is not represented.                          *)
(*   - A Date is an instant in minutes and milliseconds; the clock does    *)
(*     not advance while one handler runs.                                 *)
(***************************************************************************)
EXTENDS Integers, Sequences, FiniteSets, TLC

VARIABLES
    pc,      \* "start" | "done"
    days,    \* the --days argument handed to the command or generator
    clock,   \* the instant new Date() reads
    tz,      \* the time zone of the process: its UTC offsets and their change
    rng,     \* the source behind Math.random(): the tape and draws taken
    file,    \* the file named on the command line, as the file system shows it
    series,  \* the series handed to the analytics functions
    argv,    \* the entry point run and the arguments of the command line
    out      \* what the handler returned; for a process, what it printed
             \* and the code it exited with

vars == <<pc, days, clock, tz, rng, file, series, argv, out>>

NoValue == [none |-> TRUE]

(***************************************************************************)
(* Text                                                                    *)
(***************************************************************************)

CharAt(s, i) == SubSeq(s, i, i)

StartsWithAt(s, i, sub) ==
    /\ i >= 1
    /\ i + Len(sub) - 1 <= Len(s)
    /\ SubSeq(s, i, i + Len(sub) - 1) = sub

\* String.prototype.indexOf(sub, from), 1-based; 0 when absent.
IndexOfFrom(s, sub, i) ==
    LET P == {p \in i..(Len(s) - Len(sub) + 1) : StartsWithAt(s, p, sub)}
    IN  IF P = {} THEN 0 ELSE CHOOSE p \in P : \A q \in P : p <= q

\* String.prototype.includes
Includes(s, sub) == IndexOfFrom(s, sub, 1) # 0

UpperChars ==
    {"A", "B", "C", "D", "E", "F", "G", "H", "I", "J", "K", "L", "M",
     "N", "O", "P", "Q", "R", "S", "T", "U", "V", "W", "X", "Y", "Z"}

LowerChars ==
    {"a", "b", "c", "d", "e", "f", "g", "h", "i", "j", "k", "l", "m",
     "n", "o", "p", "q", "r", "s", "t", "u", "v", "w", "x", "y", "z"}

LetterChars == UpperChars \cup LowerChars

WhiteChars == {" ", "\t", "\n", "\r"}

\* The printable ASCII characters in code order: codes 32..95 and 97..126
\* (the grave accent, code 96, cannot be written in a TLA+ string).
AsciiLowChars ==
    " !\"#$%&'()*+,-./0123456789:;<=>?@ABCDEFGHIJKLMNOPQRSTUVWXYZ[\\]^_"

AsciiHighChars == "abcdefghijklmnopqrstuvwxyz{|}~"

\* The UTF-16 code unit of a character (what Array.prototype.sort compares).
CodeOf(c) ==
    IF c = "\t" THEN 9
    ELSE IF c = "\n" THEN 10
    ELSE IF c = "\r" THEN 13
    ELSE IF Includes(AsciiLowChars, c) THEN IndexOfFrom(AsciiLowChars, c, 1) + 31
    ELSE IndexOfFrom(AsciiHighChars, c, 1) + 96

\* a < b as JavaScript compares strings: code unit by code unit.
RECURSIVE StrLessFrom(_, _, _)
StrLessFrom(a, b, i) ==
    IF i > Len(a) THEN i <= Len(b)
    ELSE IF i > Len(b) THEN FALSE
    ELSE IF CharAt(a, i) = CharAt(b, i) THEN StrLessFrom(a, b, i + 1)
    ELSE CodeOf(CharAt(a, i)) < CodeOf(CharAt(b, i))

StrLess(a, b) == StrLessFrom(a, b, 1)

\* Array.prototype.sort() with the default comparator, on a set of strings
\* or on a sequence of strings (duplicates kept).
RECURSIVE SortStrings(_)
SortStrings(q) ==
    IF q = << >> THEN << >>
    ELSE LET m == CHOOSE i \in 1..Len(q) :
                      \A j \in 1..Len(q) : ~StrLess(q[j], q[i])
             rest == [k \in 1..(Len(q) - 1) |-> IF k < m THEN q[k] ELSE q[k + 1]]
         IN  <<q[m]>> \o SortStrings(rest)

RECURSIVE SortStringSet(_)
SortStringSet(S) ==
    IF S = {} THEN << >>
    ELSE LET m == CHOOSE x \in S : \A y \in S : ~StrLess(y, x)
         IN  <<m>> \o SortStringSet(S \ {m})

\* s.split(' ')[0]
BeforeFirstSpace(s) ==
    LET p == IndexOfFrom(s, " ", 1)
    IN  IF p = 0 THEN s ELSE SubSeq(s, 1, p - 1)

\* String.prototype.trim
RECURSIVE TrimLeft(_)
TrimLeft(s) ==
    IF s # "" /\ CharAt(s, 1) \in WhiteChars
    THEN TrimLeft(SubSeq(s, 2, Len(s)))
    ELSE s

RECURSIVE TrimRight(_)
TrimRight(s) ==
    IF s # "" /\ CharAt(s, Len(s)) \in WhiteChars
    THEN TrimRight(SubSeq(s, 1, Len(s) - 1))
    ELSE s

Trim(s) == TrimRight(TrimLeft(s))

(***************************************************************************)
(* Response envelope (utils/responses)                                     *)
(***************************************************************************)

NextAction(c, d) == [command |-> c, description |-> d]

\* success(command, result, nextActions)
success(command, result, nextActions) ==
    [ok |-> TRUE,
     command |-> "health " \o command,
     result |-> result,
     next_actions |-> nextActions]

\* error(command, message, code, fix, nextActions)
error(command, message, code, fix, nextActions) ==
    [ok |-> FALSE,
     command |-> "health " \o command,
     error |-> [message |-> message, code |-> code],
     fix |-> fix,
     next_actions |-> nextActions]

COMMON_ACTIONS ==
    [ROOT   |-> NextAction("health", "Show available commands"),
     STATUS |-> NextAction("health status", "View today's health overview"),
     HRV    |-> NextAction("health hrv", "View HRV trends"),
     SLEEP  |-> NextAction("health sleep", "View sleep analysis"),
     ALERTS |-> NextAction("health alert", "Check health alerts"),
     IMPORT |-> NextAction("health import <file>", "Import Apple Health data")]

(***************************************************************************)
(* XML structural scanner (commands/import: parseAppleHealthXML)           *)
(***************************************************************************)

\* recordMatches.slice(0, 1000): the openers whose type attribute is read
SampleCap == 1000

\* recordCount > 50000: the large-dataset warning
LargeDatasetLimit == 50000

WarnNoRecords == "No health records found in export"
WarnNoHRV     == "HRV data not found in export"
WarnNoSleep   == "Sleep data not found in export"
PrivacyNotice ==
    "NOTE: This is a parser demo - no personal health data is stored or transmitted"

WarnLargeDataset(n) ==
    "Large dataset (" \o ToString(n) \o " records) - processing limited for demo"

\* s.match(/<opener[^>]*>/g) || [] : from each leftmost occurrence of the
\* opener text the match runs to the first '>' after it, and the search
\* goes on behind that '>'.  The opener text is a prefix test: nothing asks
\* that the element name ends there.
RECURSIVE MatchOpenersFrom(_, _, _)
MatchOpenersFrom(s, opener, from) ==
    LET p == IndexOfFrom(s, opener, from)
    IN  IF p = 0 THEN << >>
        ELSE LET e == IndexOfFrom(s, ">", p + Len(opener))
             IN  IF e = 0 THEN << >>
                 ELSE <<SubSeq(s, p, e)>> \o MatchOpenersFrom(s, opener, e + 1)

MatchOpeners(s, opener) == MatchOpenersFrom(s, opener, 1)

\* The leftmost match of /key="([^"]+)"/ at or behind from (key carries the
\* =" ): the value needs at least one character, an empty value makes the
\* search go on one character further.
RECURSIVE AttrMatchFrom(_, _, _)
AttrMatchFrom(s, key, from) ==
    LET p == IndexOfFrom(s, key, from)
    IN  IF p = 0 THEN [found |-> FALSE, value |-> "", end |-> 0]
        ELSE LET v == p + Len(key)
                 q == IndexOfFrom(s, "\"", v)
             IN  IF q = 0 THEN [found |-> FALSE, value |-> "", end |-> 0]
                 ELSE IF q = v THEN AttrMatchFrom(s, key, p + 1)
                 ELSE [found |-> TRUE, value |-> SubSeq(s, v, q - 1), end |-> q]

\* s.match(/key="([^"]+)"/g).map(m => m.match(/key="([^"]+)"/)[1])
RECURSIVE AttrValuesFrom(_, _, _)
AttrValuesFrom(s, key, from) ==
    LET m == AttrMatchFrom(s, key, from)
    IN  IF ~m.found THEN << >>
        ELSE <<m.value>> \o AttrValuesFrom(s, key, m.end + 1)

\* The end of the run of letters that starts at i (i - 1 when s[i] is none).
RECURSIVE LetterRunEnd(_, _)
LetterRunEnd(s, i) ==
    IF i <= Len(s) /\ CharAt(s, i) \in LetterChars
    THEN LetterRunEnd(s, i + 1)
    ELSE i - 1

TypeIdentifierText == "TypeIdentifier"

\* fullType.replace(/HK[A-Za-z]*TypeIdentifier/, ''): the leftmost HK that
\* is followed, within its run of letters, by TypeIdentifier; the starred
\* class is greedy, so the match ends with the last TypeIdentifier of the run.
RECURSIVE StripTypePrefixFrom(_, _)
StripTypePrefixFrom(s, from) ==
    LET p == IndexOfFrom(s, "HK", from)
    IN  IF p = 0 THEN s
        ELSE LET r == LetterRunEnd(s, p + 2)
                 K == {k \in (p + 2)..(r - Len(TypeIdentifierText) + 1) :
                          StartsWithAt(s, k, TypeIdentifierText)}
             IN  IF K = {} THEN StripTypePrefixFrom(s, p + 1)
                 ELSE LET k == CHOOSE x \in K : \A y \in K : y <= x
                          e == k + Len(TypeIdentifierText) - 1
                      IN  SubSeq(s, 1, p - 1) \o SubSeq(s, e + 1, Len(s))

StripTypePrefix(s) == StripTypePrefixFrom(s, 1)

\* s.replace(/([A-Z])/g, ' $1'): a space before every capital letter
RECURSIVE SpaceCapitalsFrom(_, _)
SpaceCapitalsFrom(s, i) ==
    IF i > Len(s) THEN ""
    ELSE (IF CharAt(s, i) \in UpperChars THEN " " \o CharAt(s, i) ELSE CharAt(s, i))
         \o SpaceCapitalsFrom(s, i + 1)

SpaceCapitals(s) == SpaceCapitalsFrom(s, 1)

\* fullType.replace(/HK[A-Za-z]*TypeIdentifier/, '')
\*         .replace(/([A-Z])/g, ' $1').trim()
SimplifyType(fullType) == Trim(SpaceCapitals(StripTypePrefix(fullType)))

\* The sequence's first n elements: slice(0, n)
SliceHead(q, n) == SubSeq(q, 1, IF Len(q) < n THEN Len(q) ELSE n)

\* Faulty variant of SampledTypes: every Record opener read, not the first
\* SampleCap only.
SampledTypes_Uncapped(recordMatches) ==
    LET texts  == {recordMatches[i] : i \in 1..Len(recordMatches)}
    IN  {SimplifyType(AttrMatchFrom(t, "type=\"", 1).value) :
            t \in {u \in texts : AttrMatchFrom(u, "type=\"", 1).found}}

\* The simplified type labels of the sampled Record openers (the Set):
\* the labels of the distinct opener texts of the sample.
SampledTypes(recordMatches) ==
    LET sample == SliceHead(recordMatches, SampleCap)
        texts  == {sample[i] : i \in 1..Len(sample)}
    IN  {SimplifyType(AttrMatchFrom(t, "type=\"", 1).value) :
            t \in {u \in texts : AttrMatchFrom(u, "type=\"", 1).found}}

\* Faulty variant of HasHealthDataRoot: the marker without its bracket.
HasHealthDataRoot_NoBracket(xmlContent) == Includes(xmlContent, "HealthData")

\* xmlContent.includes('<HealthData')
HasHealthDataRoot(xmlContent) == Includes(xmlContent, "<HealthData")

\* xmlContent.match(/<Record[^>]*>/g) || []
RecordMatches(xmlContent) == MatchOpeners(xmlContent, "<Record")

\* xmlContent.match(/<Workout[^>]*>/g) || []
WorkoutMatches(xmlContent) == MatchOpeners(xmlContent, "<Workout")

\* xmlContent.match(/startDate="([^"]+)"/g), each mapped to its value.
StartDateValues(xmlContent) == AttrValuesFrom(xmlContent, "startDate=\"", 1)

\* Faulty variant of DateRangeOf: the first and the last value as the
\* document has them, without the sort.
DateRangeOf_Unsorted(dates) ==
    IF dates = << >> THEN [start |-> "", end |-> ""]
    ELSE [start |-> BeforeFirstSpace(dates[1]),
          end |-> BeforeFirstSpace(dates[Len(dates)])]

\* The date range: the day part of the first and of the last startDate
\* value as sort() orders them (equal values sort next to each other, so
\* the distinct values are sorted).
DateRangeOf(dates) ==
    IF dates = << >> THEN [start |-> "", end |-> ""]
    ELSE [start |-> BeforeFirstSpace(SortStringSet({dates[j] : j \in 1..Len(dates)})[1]),
          end |-> BeforeFirstSpace(
                      SortStringSet({dates[j] : j \in 1..Len(dates)})
                          [Cardinality({dates[j] : j \in 1..Len(dates)})])]

ScanDateRange(xmlContent) == DateRangeOf(StartDateValues(xmlContent))

\* The warnings, in the order the code pushes them.
ScanWarnings(recordCount, dataTypes) ==
    (IF recordCount = 0 THEN <<WarnNoRecords>> ELSE << >>)
    \o (IF recordCount > LargeDatasetLimit
        THEN <<WarnLargeDataset(recordCount)>> ELSE << >>)
    \o (IF "Heart Rate Variability SDNN" \notin dataTypes
        THEN <<WarnNoHRV>> ELSE << >>)
    \o (IF "Sleep Analysis" \notin dataTypes
        THEN <<WarnNoSleep>> ELSE << >>)
    \o <<PrivacyNotice>>

\* Faulty variant of ScanResultOf: the labels in descending order.
ScanResultOf_Descending(recordCount, dataTypes, dates) ==
    [threw |-> FALSE,
     recordCount |-> recordCount,
     dataTypes |-> [j \in 1..Cardinality(dataTypes) |->
                      SortStringSet(dataTypes)[Cardinality(dataTypes) + 1 - j]],
     dateRange |-> DateRangeOf(dates),
     warnings |-> ScanWarnings(recordCount, dataTypes)]

\* The ParseResult: Array.from(dataTypes).sort(), the date range and the
\* warnings.
ScanResultOf(recordCount, dataTypes, dates) ==
    [threw |-> FALSE,
     recordCount |-> recordCount,
     dataTypes |-> SortStringSet(dataTypes),
     dateRange |-> DateRangeOf(dates),
     warnings |-> ScanWarnings(recordCount, dataTypes)]

\* What parseAppleHealthXML returns from the matches of its three patterns.
ScanResult(recordMatches, workoutMatches, dates) ==
    ScanResultOf(Len(recordMatches) + Len(workoutMatches),
                 SampledTypes(recordMatches), dates)

ScanFailure ==
    [threw |-> TRUE,
     message |-> "Not a valid Apple Health export - missing HealthData root element"]

\* parseAppleHealthXML(xmlContent): threw, or the ParseResult
parseAppleHealthXML(xmlContent) ==
    IF ~HasHealthDataRoot(xmlContent)
    THEN ScanFailure
    ELSE ScanResult(RecordMatches(xmlContent), WorkoutMatches(xmlContent),
                    StartDateValues(xmlContent))

\* A long document is kept in blocks: the text is head, then unit times
\* over, then tail.  Every block ends with the > that closes its last tag
\* and no block holds a quote left open, so no match of the scanner's
\* patterns spans two blocks: the matches of the text are the matches of
\* the blocks, those of the unit times over.
Repeated(q, times) ==
    SubSeq([j \in 1..(Len(q) * times) |-> q[((j - 1) % Len(q)) + 1]],
           1, Len(q) * times)

BlocksHaveRoot(doc) ==
    \/ HasHealthDataRoot(doc.head)
    \/ doc.times > 0 /\ HasHealthDataRoot(doc.unit)
    \/ HasHealthDataRoot(doc.tail)

BlocksRecordMatches(doc) ==
    RecordMatches(doc.head)
        \o Repeated(RecordMatches(doc.unit), doc.times)
        \o RecordMatches(doc.tail)

BlocksWorkoutMatches(doc) ==
    WorkoutMatches(doc.head)
        \o Repeated(WorkoutMatches(doc.unit), doc.times)
        \o WorkoutMatches(doc.tail)

BlocksStartDateValues(doc) ==
    StartDateValues(doc.head)
        \o Repeated(StartDateValues(doc.unit), doc.times)
        \o StartDateValues(doc.tail)

\* parseAppleHealthXML on the text of the blocks
parseAppleHealthXMLBlocks(doc) ==
    IF ~BlocksHaveRoot(doc)
    THEN ScanFailure
    ELSE ScanResult(BlocksRecordMatches(doc), BlocksWorkoutMatches(doc),
                    BlocksStartDateValues(doc))

(***************************************************************************)
(* import command (commands/import: importCommand)                         *)
(***************************************************************************)

\* Faulty variant of MaxFileBytes: 100 MB counted in powers of ten.
MaxFileBytes_Decimal == 100 * 1000 * 1000

\* fileSizeMB > 100 with fileSizeMB = stats.size / (1024 * 1024)
MaxFileBytes == 104857600

\* path.basename
RECURSIVE Basename(_)
Basename(path) ==
    LET p == IndexOfFrom(path, "/", 1)
    IN  IF p = 0 THEN path ELSE Basename(SubSeq(path, p + 1, Len(path)))

\* Faulty variant of importCommand: health alert is never put first.
importCommand_StatusFirst(f) ==
    IF ~f.exists THEN
        error("import " \o f.path,
              "File not found: " \o f.path,
              "FILE_NOT_FOUND",
              "Check the file path and ensure the file exists",
              <<NextAction("ls -la", "List files in current directory"),
                NextAction("health", "Return to main menu")>>)
    ELSE IF f.size > MaxFileBytes THEN
        error("import " \o f.path,
              "File too large (max 100MB for demo)",
              "FILE_TOO_LARGE",
              "Use a smaller Apple Health export or process in chunks",
              <<NextAction("health", "Return to main menu"),
                NextAction("health status", "View current mock data instead")>>)
    ELSE
    LET parseResult ==
            IF ~f.readable
            THEN [threw |-> TRUE, message |-> "EACCES: permission denied, open"]
            ELSE parseAppleHealthXML(f.content)
    IN  IF parseResult.threw THEN
            error("import " \o f.path,
                  "Failed to parse Apple Health XML: " \o parseResult.message,
                  "PARSE_ERROR",
                  "Ensure the file is a valid Apple Health export XML",
                  <<NextAction("health", "Return to main menu"),
                    NextAction("health status", "Use mock data instead")>>)
        ELSE
        LET result ==
                [file |-> Basename(f.path),
                 records_processed |-> parseResult.recordCount,
                 data_types |-> parseResult.dataTypes,
                 date_range |-> parseResult.dateRange,
                 warnings |-> parseResult.warnings]
            baseActions ==
                <<COMMON_ACTIONS.STATUS,
                  NextAction("health hrv --days 30",
                             "View HRV trends (using mock data for demo)"),
                  NextAction("health sleep --days 30",
                             "View sleep patterns (using mock data for demo)")>>
            nextActions == baseActions
        IN  success("import " \o f.path, result, nextActions)

\* importCommand(filePath) on a file [path, exists, size, readable, content]:
\* existsSync, statSync().size, readFileSync (which may throw) and the scan.
\* (the size printed in the FILE_TOO_LARGE message is left out of the text)
importCommand(f) ==
    IF ~f.exists THEN
        error("import " \o f.path,
              "File not found: " \o f.path,
              "FILE_NOT_FOUND",
              "Check the file path and ensure the file exists",
              <<NextAction("ls -la", "List files in current directory"),
                NextAction("health", "Return to main menu")>>)
    ELSE IF f.size > MaxFileBytes THEN
        error("import " \o f.path,
              "File too large (max 100MB for demo)",
              "FILE_TOO_LARGE",
              "Use a smaller Apple Health export or process in chunks",
              <<NextAction("health", "Return to main menu"),
                NextAction("health status", "View current mock data instead")>>)
    ELSE
    LET parseResult ==
            IF ~f.readable
            THEN [threw |-> TRUE, message |-> "EACCES: permission denied, open"]
            ELSE parseAppleHealthXML(f.content)
    IN  IF parseResult.threw THEN
            error("import " \o f.path,
                  "Failed to parse Apple Health XML: " \o parseResult.message,
                  "PARSE_ERROR",
                  "Ensure the file is a valid Apple Health export XML",
                  <<NextAction("health", "Return to main menu"),
                    NextAction("health status", "Use mock data instead")>>)
        ELSE
        LET result ==
                [file |-> Basename(f.path),
                 records_processed |-> parseResult.recordCount,
                 data_types |-> parseResult.dataTypes,
                 date_range |-> parseResult.dateRange,
                 warnings |-> parseResult.warnings]
            baseActions ==
                <<COMMON_ACTIONS.STATUS,
                  NextAction("health hrv --days 30",
                             "View HRV trends (using mock data for demo)"),
                  NextAction("health sleep --days 30",
                             "View sleep patterns (using mock data for demo)")>>
            nextActions ==
                IF Len(parseResult.warnings) > 0
                THEN <<NextAction("health alert",
                                  "Check for any data quality alerts")>>
                     \o baseActions
                ELSE baseActions
        IN  success("import " \o f.path, result, nextActions)

(***************************************************************************)
(* The import command as a state machine                                   *)
(***************************************************************************)

\* The pieces the scanned documents are put together from: complete tags of
\* an Apple Health export and pieces of a damaged one.
Fragments ==
    <<"<HealthData>",
      "<Record type=\"HKQuantityTypeIdentifierHeartRateVariabilitySDNN\" startDate=\"2024-01-01 08:00:00 +0000\"/>",
      "<Record type=\"HKCategoryTypeIdentifierSleepAnalysis\" startDate=\"2024-01-03 08:00:00 +0000\"/>",
      "</HealthData>",
      "<Workout workoutActivityType=\"HKWorkoutActivityTypeRunning\" startDate=\"2024-01-02 07:00:00 +0000\">",
      "<WorkoutEvent type=\"HKWorkoutEventTypePause\" date=\"2024-01-02 07:05:00 +0000\"/>",
      "<RecordSet>",
      "<Record type=\"HKQuantityTypeIdentifierStepCount\" startDate=\"2023-12-31 23:00:00 +0000\"">>

\* The longest document, in fragments
MaxFrags == 3

RECURSIVE Concat(_)
Concat(q) == IF q = << >> THEN "" ELSE Head(q) \o Concat(Tail(q))

DocText(ix) == Concat([i \in 1..Len(ix) |-> Fragments[ix[i]]])

FragmentSeqs == UNION {[1..n -> 1..Len(Fragments)] : n \in 0..MaxFrags}

\* The literal documents of the specification's test vectors
Section86Doc == DocText(<<1, 2, 3, 4>>)

Section87Doc == "<NotHealthData></NotHealthData>"

DocTexts == {DocText(ix) : ix \in FragmentSeqs} \cup {Section86Doc, Section87Doc}

FilePaths == {"export.xml", "backup/export.xml"}

\* What the file system can show for the path: no file; a file that is
\* read whole; a file that cannot be read; a file at or over the size limit
\* (its size as statSync reports it, its text as readFileSync would).
Files ==
    {[path |-> p, exists |-> FALSE, size |-> 0, readable |-> FALSE, content |-> ""] :
        p \in FilePaths}
    \cup {[path |-> "export.xml", exists |-> TRUE, size |-> Len(t),
           readable |-> TRUE, content |-> t] : t \in DocTexts}
    \cup {[path |-> p, exists |-> TRUE, size |-> z, readable |-> r,
           content |-> t] :
            p \in FilePaths, r \in BOOLEAN,
            z \in {Len(Section86Doc), MaxFileBytes, MaxFileBytes + 1},
            t \in {Section86Doc, Section87Doc}}

InitImport ==
    /\ pc = "start"
    /\ file \in Files
    /\ days = NoValue
    /\ clock = NoValue
    /\ tz = NoValue
    /\ rng = NoValue
    /\ series = NoValue
    /\ argv = NoValue
    /\ out = NoValue

\* health import <file>
ImportCommand ==
    /\ pc = "start"
    /\ file # NoValue
    /\ out' = importCommand(file)
    /\ pc' = "done"
    /\ UNCHANGED <<days, clock, tz, rng, file, series, argv>>

NextImport == ImportCommand

SpecImport == InitImport /\ [][NextImport]_vars

(***************************************************************************)
(* Numbers                                                                 *)
(***************************************************************************)

Max(a, b) == IF a >= b THEN a ELSE b

Min(a, b) == IF a <= b THEN a ELSE b

Abs(a) == IF a < 0 THEN 0 - a ELSE a

RECURSIVE GCD(_, _)
GCD(a, b) == IF b = 0 THEN a ELSE GCD(b, a % b)

\* A number as the exact fraction n / d in lowest terms, d > 0.  A zero
\* denominator stands for the values a division by zero gives: 0 / 0 is
\* NaN, 1 / 0 is Infinity and -1 / 0 is -Infinity.
Rat(n, d) ==
    IF d = 0
    THEN [n |-> IF n > 0 THEN 1 ELSE IF n < 0 THEN 0 - 1 ELSE 0, d |-> 0]
    ELSE LET g == GCD(Abs(n), Abs(d))
             s == IF d < 0 THEN 0 - 1 ELSE 1
         IN  [n |-> s * (n \div g), d |-> s * (d \div g)]

NaN == Rat(0, 0)

Infinity == Rat(1, 0)

IsFinite(a) == a.d # 0

RatLess(a, b) == a.n * b.d < b.n * a.d

RatAdd(a, b) == Rat(a.n * b.d + b.n * a.d, a.d * b.d)

RatSub(a, b) == Rat(a.n * b.d - b.n * a.d, a.d * b.d)

RatMul(a, b) == Rat(a.n * b.n, a.d * b.d)

\* a / b of finite numbers.
RatDiv(a, b) == Rat(a.n * b.d, a.d * b.n)

RatAbs(a) == Rat(Abs(a.n), a.d)

RatMax(a, b) == IF RatLess(a, b) THEN b ELSE a

RatMin(a, b) == IF RatLess(b, a) THEN b ELSE a

\* Math.floor(x)
MathFloor(x) == x.n \div x.d

\* Math.round(x): the integer nearest to x, a tie going up.
MathRound(x) == (2 * x.n + x.d) \div (2 * x.d)

\* Math.round(x) of a value that may be NaN or infinite, which it keeps.
MathRoundNumber(x) == IF IsFinite(x) THEN Rat(MathRound(x), 1) ELSE x

\* Math.round(x * 10) / 10, a number with one decimal.
RoundToTenth(x) == Rat(MathRound(RatMul(x, Rat(10, 1))), 10)

\* The sum of values[lo..hi], by halves.
RECURSIVE SumRange(_, _, _)
SumRange(values, lo, hi) ==
    IF lo > hi THEN Rat(0, 1)
    ELSE IF lo = hi THEN values[lo]
    ELSE LET mid == (lo + hi) \div 2
         IN  RatAdd(SumRange(values, lo, mid), SumRange(values, mid + 1, hi))

\* values.reduce((sum, v) => sum + v, 0)
Sum(values) == SumRange(values, 1, Len(values))

\* values.slice(-k)
SliceLast(values, k) == SubSeq(values, Max(1, Len(values) - k + 1), Len(values))

\* values.slice(0, k)
SliceFirst(values, k) == SubSeq(values, 1, Min(k, Len(values)))

(***************************************************************************)
(* Math.random()                                                           *)
(***************************************************************************)

\* The source returns RandScale equidistant values of [0, 1) read off a
\* tape that repeats; pos counts the draws taken so far.
RandScale == 4

TapeLen == 3

Tapes == [1..TapeLen -> 0..(RandScale - 1)]

\* The value of the n-th next call of Math.random(), n = 0, 1, ...
Random(r, n) == Rat(r.tape[((r.pos + n) % Len(r.tape)) + 1], RandScale)

Drawn(r, n) == [r EXCEPT !.pos = @ + n]

(***************************************************************************)
(* Date                                                                    *)
(*                                                                         *)
(* A Date is an instant: whole minutes since 1970-01-01T00:00Z and the     *)
(* milliseconds within the minute.  The time zone of the process has one   *)
(* change of UTC offset: before minutes east of UTC ahead of the instant   *)
(* at, after minutes from then on.                                         *)
(***************************************************************************)

MinutesPerDay == 1440

MsPerMinute == 60000

Instant(m, ms) == [min |-> m, ms |-> ms]

OffsetAt(z, utcMin) == IF utcMin < z.at THEN z.before ELSE z.after

\* The local wall-clock minute count of an instant.
LocalMinutes(z, t) == t.min + OffsetAt(z, t.min)

\* The instant of a local wall-clock reading.  A reading the change of
\* offset skips or repeats is taken with the offset before the change.
FromLocal(z, localMin, ms) ==
    IF localMin < z.at + Max(z.before, z.after)
    THEN Instant(localMin - z.before, ms)
    ELSE Instant(localMin - z.after, ms)

\* date.setDate(date.getDate() - i): the same local time of day, i local
\* calendar days earlier.
setDateBack(z, t, i) ==
    FromLocal(z, LocalMinutes(z, t) - i * MinutesPerDay, t.ms)

\* bedtime.setHours(h, m): local hour and minute replaced (an hour of 24
\* is 00 of the next local day), seconds and milliseconds kept.
setHours(z, t, h, m) ==
    FromLocal(z, (LocalMinutes(z, t) \div MinutesPerDay) * MinutesPerDay
                   + h * 60 + m, t.ms)

\* wakeTime.setTime(wakeTime.getTime() + ms), ms a whole number.
addMs(t, ms) ==
    Instant(t.min + (t.ms + ms) \div MsPerMinute, (t.ms + ms) % MsPerMinute)

Pad2(n) == IF n < 10 THEN "0" \o ToString(n) ELSE ToString(n)

Pad4(n) ==
    IF n < 10 THEN "000" \o ToString(n)
    ELSE IF n < 100 THEN "00" \o ToString(n)
    ELSE IF n < 1000 THEN "0" \o ToString(n)
    ELSE ToString(n)

\* The proleptic Gregorian year, month and day of the day numbered z,
\* day 0 being 1970-01-01.
CivilFromDays(z) ==
    LET zz  == z + 719468
        era == zz \div 146097
        doe == zz - era * 146097
        yoe == (doe - doe \div 1460 + doe \div 36524 - doe \div 146096) \div 365
        doy == doe - (365 * yoe + yoe \div 4 - yoe \div 100)
        mp  == (5 * doy + 2) \div 153
        d   == doy - (153 * mp + 2) \div 5 + 1
        m   == IF mp < 10 THEN mp + 3 ELSE mp - 9
        y   == yoe + era * 400 + (IF m <= 2 THEN 1 ELSE 0)
    IN  [year |-> y, month |-> m, day |-> d]

\* The YYYY-MM-DD text of the day numbered z.
DayText(z) ==
    LET c == CivilFromDays(z)
    IN  Pad4(c.year) \o "-" \o Pad2(c.month) \o "-" \o Pad2(c.day)

UTCDay(t) == t.min \div MinutesPerDay

LocalDay(z, t) == LocalMinutes(z, t) \div MinutesPerDay

\* date.toISOString().split('T')[0]: the calendar date in UTC.
toISODate(t) == DayText(UTCDay(t))

\* date.toTimeString().substring(0, 5): HH:MM on the local wall clock.
toTimeHHMM(z, t) ==
    LET m == LocalMinutes(z, t) % MinutesPerDay
    IN  Pad2(m \div 60) \o ":" \o Pad2(m % 60)

(***************************************************************************)
(* Mock data generators                                                    *)
(***************************************************************************)

\* Faulty variant of baseHRV: the values spread around 35.
baseHRV_Low == 45 - 10

\* const baseHRV = 45
baseHRV == 45

\* Faulty variant of HRVCategory: the lower threshold at 40 in place of 30.
HRVCategory_LowBelow40(value) ==
    IF RatLess(value, Rat(40, 1)) THEN "low"
    ELSE IF RatLess(Rat(60, 1), value) THEN "high"
    ELSE "normal"

\* The category of an HRV value, before the value is rounded.
HRVCategory(value) ==
    IF RatLess(value, Rat(30, 1)) THEN "low"
    ELSE IF RatLess(Rat(60, 1), value) THEN "high"
    ELSE "normal"

\* One pass of the loop of generateMockHRV: the sample of i days ago, u the
\* value Math.random() returned.
MockHRVSample(z, now, i, u) ==
    LET date      == setDateBack(z, now, i)
        variation == RatMul(RatSub(u, Rat(1, 2)), Rat(20, 1))
        value     == RatMax(Rat(20, 1),
                            RatMin(Rat(80, 1), RatAdd(Rat(baseHRV, 1), variation)))
    IN  [date |-> toISODate(date),
         value |-> MathRound(value),
         category |-> HRVCategory(value)]

\* generateMockHRV(days): the samples, oldest first, and the random source
\* after the call.
generateMockHRV(n, z, now, r) ==
    LET count == Max(n, 0)
    IN  [data |-> SubSeq([j \in 1..count |->
                            MockHRVSample(z, now, count - j, Random(r, j - 1))],
                         1, count),
         rng  |-> Drawn(r, count)]

\* duration * 60 * 60 * 1000, as setTime takes it: whole milliseconds.
DurationMs(duration) == MathFloor(RatMul(duration, Rat(3600000, 1)))

\* Faulty variant of MockSleepSample: the wake time drawn on its own, an
\* hour from 05 to 07 and the minute of the bedtime draw.
MockSleepSample_WakeDrawn(z, now, i, u) ==
    LET date     == setDateBack(z, now, i)
        duration == RatAdd(Rat(13, 2), RatMul(u[1], Rat(5, 2)))
        deepSleep == RatMul(duration, RatAdd(Rat(15, 100), RatMul(u[2], Rat(10, 100))))
        remSleep  == RatMul(duration, RatAdd(Rat(20, 100), RatMul(u[3], Rat(10, 100))))
        bedtime  == setHours(z, date, 22 + MathFloor(RatMul(u[4], Rat(3, 1))),
                             MathFloor(RatMul(u[5], Rat(60, 1))))
        wakeTime == setHours(z, date, 29 + MathFloor(RatMul(u[6], Rat(3, 1))),
                             MathFloor(RatMul(u[5], Rat(60, 1))))
        sleepScore == MathRound(RatAdd(Rat(60, 1), RatMul(u[6], Rat(35, 1))))
    IN  [date |-> toISODate(date),
         duration_hours |-> RoundToTenth(duration),
         deep_sleep_hours |-> RoundToTenth(deepSleep),
         rem_sleep_hours |-> RoundToTenth(remSleep),
         sleep_score |-> sleepScore,
         bedtime |-> toTimeHHMM(z, bedtime),
         wake_time |-> toTimeHHMM(z, wakeTime)]

\* One pass of the loop of generateMockSleep: the sample of i days ago, u
\* the six values Math.random() returned, in the order of the calls.
MockSleepSample(z, now, i, u) ==
    LET date     == setDateBack(z, now, i)
        duration == RatAdd(Rat(13, 2), RatMul(u[1], Rat(5, 2)))
        deepSleep == RatMul(duration, RatAdd(Rat(15, 100), RatMul(u[2], Rat(10, 100))))
        remSleep  == RatMul(duration, RatAdd(Rat(20, 100), RatMul(u[3], Rat(10, 100))))
        bedtime  == setHours(z, date, 22 + MathFloor(RatMul(u[4], Rat(3, 1))),
                             MathFloor(RatMul(u[5], Rat(60, 1))))
        wakeTime == addMs(bedtime, DurationMs(duration))
        sleepScore == MathRound(RatAdd(Rat(60, 1), RatMul(u[6], Rat(35, 1))))
    IN  [date |-> toISODate(date),
         duration_hours |-> RoundToTenth(duration),
         deep_sleep_hours |-> RoundToTenth(deepSleep),
         rem_sleep_hours |-> RoundToTenth(remSleep),
         sleep_score |-> sleepScore,
         bedtime |-> toTimeHHMM(z, bedtime),
         wake_time |-> toTimeHHMM(z, wakeTime)]

DrawsPerSleepSample == 6

\* generateMockSleep(days): the samples, oldest first, and the random
\* source after the call.
generateMockSleep(n, z, now, r) ==
    LET count == Max(n, 0)
    IN  [data |-> SubSeq([j \in 1..count |->
                            MockSleepSample(z, now, count - j,
                                [k \in 1..DrawsPerSleepSample |->
                                    Random(r, DrawsPerSleepSample * (j - 1) + k - 1)])],
                         1, count),
         rng  |-> Drawn(r, DrawsPerSleepSample * count)]

\* timeToMinutes(time): the minute of the day of an HH:MM text.
DigitValue(c) ==
    CASE c = "0" -> 0 [] c = "1" -> 1 [] c = "2" -> 2 [] c = "3" -> 3
      [] c = "4" -> 4 [] c = "5" -> 5 [] c = "6" -> 6 [] c = "7" -> 7
      [] c = "8" -> 8 [] c = "9" -> 9

timeToMinutes(time) ==
    (DigitValue(CharAt(time, 1)) * 10 + DigitValue(CharAt(time, 2))) * 60
    + DigitValue(CharAt(time, 4)) * 10 + DigitValue(CharAt(time, 5))

(***************************************************************************)
(* Trend analysis                                                          *)
(***************************************************************************)

\* The values of HRV samples, as numbers.
HRVValues(data) == [j \in 1..Len(data) |-> Rat(data[j].value, 1)]

\* Faulty variant of TrendChange: the last three values against the three
\* before them.
TrendChange_Sliding(values) ==
    LET recent  == RatDiv(Sum(SliceLast(values, 3)), Rat(3, 1))
        earlier == RatDiv(Sum(SliceFirst(SliceLast(values, 6), Max(0, Len(SliceLast(values, 6)) - 3))),
                          Rat(3, 1))
    IN  [recent |-> recent, earlier |-> earlier, change |-> RatSub(recent, earlier)]

\* recent, earlier and change as analyzeHRVTrend and calculateTrend compute
\* them: the sums of the last and of the first three values, each over 3.
TrendChange(values) ==
    LET recent  == RatDiv(Sum(SliceLast(values, 3)), Rat(3, 1))
        earlier == RatDiv(Sum(SliceFirst(values, 3)), Rat(3, 1))
    IN  [recent |-> recent, earlier |-> earlier, change |-> RatSub(recent, earlier)]

\* analyzeHRVTrend(data)
analyzeHRVTrend(data) ==
    IF Len(data) < 2
    THEN [direction |-> "insufficient_data", change |-> 0, significance |-> "none"]
    ELSE LET t == TrendChange(HRVValues(data))
             change == t.change
             changePercent ==
                 MathRoundNumber(IF t.earlier.n = 0
                                 THEN Rat(change.n, 0)
                                 ELSE RatMul(RatDiv(change, t.earlier), Rat(100, 1)))
             direction ==
                 IF RatLess(RatAbs(change), Rat(2, 1)) THEN "stable"
                 ELSE IF RatLess(Rat(0, 1), change) THEN "improving"
                 ELSE "declining"
             significance ==
                 IF RatLess(RatAbs(change), Rat(2, 1)) THEN "none"
                 ELSE IF RatLess(Rat(0, 1), change)
                      THEN (IF RatLess(Rat(5, 1), change) THEN "significant" ELSE "moderate")
                      ELSE (IF RatLess(change, Rat(0 - 5, 1)) THEN "significant" ELSE "moderate")
         IN  [direction |-> direction,
              change |-> MathRound(change),
              change_percent |-> changePercent,
              significance |-> significance]

\* calculateTrend(values)
calculateTrend(values) ==
    IF Len(values) < 3 THEN "insufficient_data"
    ELSE LET change == TrendChange(values).change
         IN  IF RatLess(RatAbs(change), Rat(2, 10)) THEN "stable"
             ELSE IF RatLess(Rat(0, 1), change) THEN "improving"
             ELSE "declining"

(***************************************************************************)
(* Statistics                                                              *)
(***************************************************************************)

\* The sum of values[lo..hi], whole numbers, by halves.
RECURSIVE IntSumRange(_, _, _)
IntSumRange(values, lo, hi) ==
    IF lo > hi THEN 0
    ELSE IF lo = hi THEN values[lo]
    ELSE LET mid == (lo + hi) \div 2
         IN  IntSumRange(values, lo, mid) + IntSumRange(values, mid + 1, hi)

\* values.reduce((sum, v) => sum + v, 0) of whole numbers.
IntSum(values) == IntSumRange(values, 1, Len(values))

\* Math.max(...values), Math.min(...values)
MaxOf(values) == CHOOSE v \in {values[j] : j \in 1..Len(values)} :
                    \A j \in 1..Len(values) : values[j] <= v

MinOf(values) == CHOOSE v \in {values[j] : j \in 1..Len(values)} :
                    \A j \in 1..Len(values) : v <= values[j]

\* values.indexOf(v), counted from 1.
IndexOf(values, v) == CHOOSE j \in 1..Len(values) :
                        values[j] = v /\ \A k \in 1..(j - 1) : values[k] # v

\* data.filter(d => d.category === category).length
CountCategory(data, category) ==
    Cardinality({j \in 1..Len(data) : data[j].category = category})

RECURSIVE ISqrtIn(_, _, _)
ISqrtIn(x, lo, hi) ==
    IF lo >= hi THEN lo
    ELSE LET mid == (lo + hi + 1) \div 2
         IN  IF mid * mid <= x THEN ISqrtIn(x, mid, hi) ELSE ISqrtIn(x, lo, mid - 1)

\* The whole part of the square root of x >= 0.
ISqrt(x) == ISqrtIn(x, 0, Min(x, 46340))

\* The whole part of m times the population variance of whole numbers:
\* the mean of the squared distances from the mean, a non-empty series.
\* With c the whole part of the mean and r the remainder of the sum, the
\* variance is Sum((v - c)^2) / n - (r / n)^2.
VarianceTimesFloor(values, m) ==
    LET n == Len(values)
        s == IntSum(values)
        c == s \div n
        r == s % n
        a == IntSum([j \in 1..n |-> (values[j] - c) * (values[j] - c)])
        q == (m * a) \div n
        p == (m * a) % n
    IN  q + ((n * p - m * r * r) \div (n * n))

\* Math.round(k * Math.sqrt(variance)) of whole numbers, k > 0: the whole
\* number t with (2t - 1)^2 <= 4 k^2 variance < (2t + 1)^2.
RoundedDeviation(values, k) ==
    (ISqrt(VarianceTimesFloor(values, 4 * k * k)) + 1) \div 2

\* Math.round(calculateStandardDeviation(values) * 10) / 10
calculateStandardDeviation(values) == Rat(RoundedDeviation(values, 10), 10)

(***************************************************************************)
(* health hrv                                                              *)
(***************************************************************************)

\* Faulty variant of DaysOutOfRange: the ends of the range refused too.
DaysOutOfRange_Exclusive(n) == n <= 1 \/ n >= 90

\* days < 1 || days > 90
DaysOutOfRange(n) == n < 1 \/ n > 90

\* generateHRVInsights(data, analysis), the texts without their leading
\* pictograph.
generateHRVInsights(data, analysis) ==
    LET current == data[Len(data)]
        lowDays == CountCategory(data, "low")
    IN  (IF analysis.direction = "improving"
         THEN <<"HRV trending upward - recovery practices are working">>
         ELSE IF analysis.direction = "declining"
         THEN <<"HRV declining - consider stress management and recovery focus">>
         ELSE <<"HRV stable - maintain current recovery practices">>)
        \o (IF current.category = "low"
            THEN <<"Current HRV is low - prioritize rest and recovery today">>
            ELSE << >>)
        \o (IF 10 * lowDays > 3 * Len(data)
            THEN <<"Frequent low HRV days - consider lifestyle factors (sleep, stress, training)">>
            ELSE << >>)
        \o (IF analysis.significance = "significant"
            THEN <<"Significant trend detected - correlate with recent changes in routine">>
            ELSE << >>)

\* The error both commands return for days outside 1..90; name is the
\* command, "hrv" or "sleep".
daysRangeError(name, n) ==
    error(name \o " --days " \o ToString(n),
          "Days parameter must be between 1 and 90",
          "INVALID_DAYS_RANGE",
          "Use a value between 1 and 90 days",
          <<NextAction("health " \o name, "Use default 7 days"),
            NextAction("health " \o name \o " --days 14", "Try 2 weeks"),
            NextAction("health " \o name \o " --days 30", "Try 1 month")>>)

\* hrvData.map(d => d.value)
hrvValueList(hrvData) == [j \in 1..Len(hrvData) |-> hrvData[j].value]

\* hrvCommand: the statistics of the values.
hrvStatistics(values) ==
    [average |-> MathRound(Rat(IntSum(values), Len(values))),
     min |-> MinOf(values),
     max |-> MaxOf(values),
     std_dev |-> calculateStandardDeviation(values)]

\* Faulty variant of hrvResult: data is the first ten samples.
hrvResult_SliceFirst(n, hrvData, last, analysis) ==
    [period |-> [days |-> n,
                 start_date |-> hrvData[1].date,
                 end_date |-> last.date],
     current |-> [value |-> last.value,
                  category |-> last.category,
                  date |-> last.date],
     statistics |-> hrvStatistics(hrvValueList(hrvData)),
     trend |-> analysis,
     distribution |-> [low |-> CountCategory(hrvData, "low"),
                       normal |-> CountCategory(hrvData, "normal"),
                       high |-> CountCategory(hrvData, "high")],
     data |-> SliceFirst(hrvData, 10),
     insights |-> generateHRVInsights(hrvData, analysis)]

\* hrvCommand: the result, last being the newest sample.
hrvResult(n, hrvData, last, analysis) ==
    [period |-> [days |-> n,
                 start_date |-> hrvData[1].date,
                 end_date |-> last.date],
     current |-> [value |-> last.value,
                  category |-> last.category,
                  date |-> last.date],
     statistics |-> hrvStatistics(hrvValueList(hrvData)),
     trend |-> analysis,
     distribution |-> [low |-> CountCategory(hrvData, "low"),
                       normal |-> CountCategory(hrvData, "normal"),
                       high |-> CountCategory(hrvData, "high")],
     data |-> SliceLast(hrvData, 10),
     insights |-> generateHRVInsights(hrvData, analysis)]

\* hrvCommand: the suggested actions.
hrvNextActions(n, currentCategory) ==
    (IF currentCategory = "low" THEN <<COMMON_ACTIONS.ALERTS>> ELSE << >>)
    \o <<COMMON_ACTIONS.STATUS, COMMON_ACTIONS.SLEEP>>
    \o (IF n = 7
        THEN <<NextAction("health hrv --days 14", "Extend analysis to 2 weeks")>>
        ELSE IF n = 14
        THEN <<NextAction("health hrv --days 30", "View monthly HRV pattern")>>
        ELSE << >>)

\* hrvCommand from line 24 on, hrvData being what the generator returned.
hrvReport(n, hrvData) ==
    success("hrv --days " \o ToString(n),
            hrvResult(n, hrvData, hrvData[Len(hrvData)], analyzeHRVTrend(hrvData)),
            hrvNextActions(n, hrvData[Len(hrvData)].category))

\* hrvCommand: the answer for days in range, g being what generateMockHRV
\* returned.
hrvAnswer(n, g) == [response |-> hrvReport(n, g.data), rng |-> g.rng]

\* hrvCommand(days): the response and the random source after the call.
hrvCommand(n, z, now, r) ==
    IF DaysOutOfRange(n)
    THEN [response |-> daysRangeError("hrv", n), rng |-> r]
    ELSE hrvAnswer(n, generateMockHRV(n, z, now, r))

(***************************************************************************)
(* health sleep                                                            *)
(***************************************************************************)

\* sleepData.map(s => s.duration_hours) and the like.
durationList(data) == [j \in 1..Len(data) |-> data[j].duration_hours]

deepSleepList(data) == [j \in 1..Len(data) |-> data[j].deep_sleep_hours]

remSleepList(data) == [j \in 1..Len(data) |-> data[j].rem_sleep_hours]

scoreList(data) == [j \in 1..Len(data) |-> data[j].sleep_score]

bedtimeList(data) == [j \in 1..Len(data) |-> data[j].bedtime]

wakeTimeList(data) == [j \in 1..Len(data) |-> data[j].wake_time]

\* Faulty variant of calculateAverageTime: the mean cut to a whole minute.
calculateAverageTime_Floor(times) ==
    LET minutes    == [j \in 1..Len(times) |-> timeToMinutes(times[j])]
        avgMinutes == MathFloor(Rat(IntSum(minutes), Len(minutes)))
    IN  Pad2(avgMinutes \div 60) \o ":" \o Pad2(avgMinutes % 60)

\* calculateAverageTime(times)
calculateAverageTime(times) ==
    LET minutes    == [j \in 1..Len(times) |-> timeToMinutes(times[j])]
        avgMinutes == MathRound(Rat(IntSum(minutes), Len(minutes)))
    IN  Pad2(avgMinutes \div 60) \o ":" \o Pad2(avgMinutes % 60)

\* Faulty variant of calculateSleepDebt: every night adds 8 less its
\* duration, a night over 8 hours a negative amount.
calculateSleepDebt_Signed(data) ==
    LET targetHours == Rat(8, 1)
        totalDebt ==
            Sum([j \in 1..Len(data) |->
                    RatSub(targetHours, data[j].duration_hours)])
    IN  [total_hours |-> RoundToTenth(totalDebt),
         avg_per_night |-> RoundToTenth(RatDiv(totalDebt, Rat(Len(data), 1))),
         status |-> IF RatLess(Rat(5, 1), totalDebt) THEN "significant"
                    ELSE IF RatLess(Rat(2, 1), totalDebt) THEN "moderate"
                    ELSE "minimal"]

\* calculateSleepDebt(data)
calculateSleepDebt(data) ==
    LET targetHours == Rat(8, 1)
        totalDebt ==
            Sum([j \in 1..Len(data) |->
                    IF RatLess(data[j].duration_hours, targetHours)
                    THEN RatSub(targetHours, data[j].duration_hours)
                    ELSE Rat(0, 1)])
    IN  [total_hours |-> RoundToTenth(totalDebt),
         avg_per_night |-> RoundToTenth(RatDiv(totalDebt, Rat(Len(data), 1))),
         status |-> IF RatLess(Rat(5, 1), totalDebt) THEN "significant"
                    ELSE IF RatLess(Rat(2, 1), totalDebt) THEN "moderate"
                    ELSE "minimal"]

\* Faulty variant of calculateSleepConsistency: the score not held at 0
\* from below.
calculateSleepConsistency_Unclamped(data) ==
    LET bedtimes  == [j \in 1..Len(data) |-> timeToMinutes(data[j].bedtime)]
        wakeTimes == [j \in 1..Len(data) |-> timeToMinutes(data[j].wake_time)]
        bedtimeVariance  == RoundedDeviation(bedtimes, 1)
        wakeTimeVariance == RoundedDeviation(wakeTimes, 1)
    IN  [bedtime_variance |-> bedtimeVariance,
         wake_time_variance |-> wakeTimeVariance,
         consistency_score |->
             RatSub(Rat(100, 1), Rat(bedtimeVariance + wakeTimeVariance, 2))]

\* calculateSleepConsistency(data)
calculateSleepConsistency(data) ==
    LET bedtimes  == [j \in 1..Len(data) |-> timeToMinutes(data[j].bedtime)]
        wakeTimes == [j \in 1..Len(data) |-> timeToMinutes(data[j].wake_time)]
        bedtimeVariance  == RoundedDeviation(bedtimes, 1)
        wakeTimeVariance == RoundedDeviation(wakeTimes, 1)
    IN  [bedtime_variance |-> bedtimeVariance,
         wake_time_variance |-> wakeTimeVariance,
         consistency_score |->
             RatMax(Rat(0, 1),
                    RatSub(Rat(100, 1), Rat(bedtimeVariance + wakeTimeVariance, 2)))]

\* Faulty variant of nightOfScore: the night of the last sample with the
\* score.
nightOfScore_Latest(data, scores, score) ==
    [date |-> data[CHOOSE j \in 1..Len(scores) :
                      scores[j] = score
                          /\ \A k \in (j + 1)..Len(scores) : scores[k] # score].date,
     score |-> score,
     duration |-> data[CHOOSE j \in 1..Len(scores) :
                          scores[j] = score
                              /\ \A k \in (j + 1)..Len(scores) : scores[k] # score]
                    .duration_hours]

\* analyzeSleepPattern: the night of the first sample with the score.
nightOfScore(data, scores, score) ==
    [date |-> data[IndexOf(scores, score)].date,
     score |-> score,
     duration |-> data[IndexOf(scores, score)].duration_hours]

\* analyzeSleepPattern: the number of durations of 7 hours or more.
sufficientSleepDays(durations) ==
    Cardinality({j \in 1..Len(durations) : ~RatLess(durations[j], Rat(7, 1))})

\* calculateTrend(scores), the scores taken as numbers.
scoreTrend(scores) == calculateTrend([j \in 1..Len(scores) |-> Rat(scores[j], 1)])

\* analyzeSleepPattern(data)
analyzeSleepPattern(data) ==
    [duration_trend |-> calculateTrend(durationList(data)),
     quality_trend |-> scoreTrend(scoreList(data)),
     sufficient_sleep_days |-> sufficientSleepDays(durationList(data)),
     total_days |-> Len(data),
     best_night |-> nightOfScore(data, scoreList(data), MaxOf(scoreList(data))),
     worst_night |-> nightOfScore(data, scoreList(data), MinOf(scoreList(data)))]

\* generateSleepInsights(data, analysis), the texts without their leading
\* pictograph.
generateSleepInsights(data, analysis) ==
    LET lastNight == data[Len(data)]
        sufficient == analysis.sufficient_sleep_days
        total == analysis.total_days
    IN  (IF analysis.duration_trend = "improving"
         THEN <<"Sleep duration improving - good progress">>
         ELSE IF analysis.duration_trend = "declining"
         THEN <<"Sleep duration declining - focus on earlier bedtime">>
         ELSE << >>)
        \o (IF analysis.quality_trend = "improving"
            THEN <<"Sleep quality trending up">>
            ELSE IF analysis.quality_trend = "declining"
            THEN <<"Sleep quality declining - review sleep hygiene">>
            ELSE << >>)
        \o (IF 100 * sufficient < 50 * total
            THEN <<"Getting sufficient sleep (7+ hours) less than half the time">>
            ELSE IF 100 * sufficient > 80 * total
            THEN <<"Consistently meeting sleep duration goals">>
            ELSE << >>)
        \o (IF RatLess(lastNight.duration_hours, Rat(6, 1))
            THEN <<"Last night was severely sleep deprived - prioritize recovery">>
            ELSE IF RatLess(lastNight.duration_hours, Rat(7, 1))
            THEN <<"Last night was short - aim for earlier bedtime tonight">>
            ELSE << >>)

\* Math.round(values.reduce(...) / days * 10) / 10
averageTenth(values, n) == RoundToTenth(RatDiv(Sum(values), Rat(n, 1)))

\* sleepCommand: the averages.
sleepAverages(n, sleepData) ==
    [duration |-> averageTenth(durationList(sleepData), n),
     score |-> MathRound(Rat(IntSum(scoreList(sleepData)), n)),
     deep_sleep |-> averageTenth(deepSleepList(sleepData), n),
     rem_sleep |-> averageTenth(remSleepList(sleepData), n),
     bedtime |-> calculateAverageTime(bedtimeList(sleepData)),
     wake_time |-> calculateAverageTime(wakeTimeList(sleepData))]

\* sleepCommand: the result, last being the newest sample.
sleepResult(n, sleepData, last, analysis, consistency) ==
    [period |-> [days |-> n,
                 start_date |-> sleepData[1].date,
                 end_date |-> last.date],
     last_night |-> [duration |-> last.duration_hours,
                     score |-> last.sleep_score,
                     bedtime |-> last.bedtime,
                     wake_time |-> last.wake_time,
                     deep_sleep |-> last.deep_sleep_hours,
                     rem_sleep |-> last.rem_sleep_hours],
     averages |-> sleepAverages(n, sleepData),
     patterns |-> analysis,
     sleep_debt |-> calculateSleepDebt(sleepData),
     consistency |-> consistency,
     data |-> SliceLast(sleepData, 10),
     insights |-> generateSleepInsights(sleepData, analysis)]

\* sleepCommand: the suggested actions.
sleepNextActions(n, lastNightDuration, bedtimeVariance) ==
    (IF RatLess(lastNightDuration, Rat(7, 1)) THEN <<COMMON_ACTIONS.ALERTS>> ELSE << >>)
    \o <<COMMON_ACTIONS.STATUS, COMMON_ACTIONS.HRV>>
    \o (IF n = 7
        THEN <<NextAction("health sleep --days 30", "View monthly sleep patterns")>>
        ELSE << >>)
    \o (IF bedtimeVariance > 60
        THEN <<NextAction("health sleep --days 14",
                          "Analyze bedtime consistency over 2 weeks")>>
        ELSE << >>)

\* sleepCommand from line 448 on, sleepData being what the generator
\* returned and consistency what calculateSleepConsistency made of it.
sleepReport(n, sleepData, consistency) ==
    success("sleep --days " \o ToString(n),
            sleepResult(n, sleepData, sleepData[Len(sleepData)],
                        analyzeSleepPattern(sleepData), consistency),
            sleepNextActions(n, sleepData[Len(sleepData)].duration_hours,
                             consistency.bedtime_variance))

\* sleepCommand: the answer for days in range, g being what
\* generateMockSleep returned.
sleepAnswer(n, g) ==
    [response |-> sleepReport(n, g.data, calculateSleepConsistency(g.data)),
     rng |-> g.rng]

\* sleepCommand(days): the response and the random source after the call.
sleepCommand(n, z, now, r) ==
    IF DaysOutOfRange(n)
    THEN [response |-> daysRangeError("sleep", n), rng |-> r]
    ELSE sleepAnswer(n, generateMockSleep(n, z, now, r))

(***************************************************************************)
(* Status snapshot and alert thresholds (data/mockData)                    *)
(***************************************************************************)

Pad3(n) ==
    IF n < 10 THEN "00" \o ToString(n)
    ELSE IF n < 100 THEN "0" \o ToString(n)
    ELSE ToString(n)

\* date.toISOString(): YYYY-MM-DDTHH:MM:SS.mmmZ in UTC.
toISOString(t) ==
    DayText(UTCDay(t)) \o "T"
        \o Pad2((t.min % MinutesPerDay) \div 60) \o ":" \o Pad2(t.min % 60)
        \o ":" \o Pad2(t.ms \div 1000) \o "." \o Pad3(t.ms % 1000) \o "Z"

\* hrvTrend of generateMockStatus: the last value against the one before.
statusHRVTrend(recentHRV) ==
    IF Len(recentHRV) > 1
    THEN IF recentHRV[Len(recentHRV)].value > recentHRV[Len(recentHRV) - 1].value
         THEN "up"
         ELSE IF recentHRV[Len(recentHRV)].value < recentHRV[Len(recentHRV) - 1].value
              THEN "down"
              ELSE "stable"
    ELSE "stable"

\* alerts of generateMockStatus; the texts without their pictographs.
statusAlerts(currentHRV, lastNightSleep) ==
    (IF currentHRV.value < 30 THEN <<"HRV is low - consider rest day">> ELSE <<>>)
    \o (IF RatLess(lastNightSleep.duration_hours, Rat(6, 1))
        THEN <<"Insufficient sleep last night">> ELSE <<>>)

\* activity of generateMockStatus, u the three values Math.random()
\* returned, in the order of the calls.
statusActivity(u) ==
    [steps |-> 8500 + MathFloor(RatMul(u[1], Rat(3000, 1))),
     active_calories |-> 450 + MathFloor(RatMul(u[2], Rat(200, 1))),
     exercise_minutes |-> 25 + MathFloor(RatMul(u[3], Rat(40, 1)))]

\* The object generateMockStatus returns, from the two series it generated
\* and the activity it drew.
statusSnapshot(today, recentHRV, recentSleep, activity) ==
    [date |-> today,
     hrv |-> [current |-> recentHRV[Len(recentHRV)].value,
              trend |-> statusHRVTrend(recentHRV),
              category |-> recentHRV[Len(recentHRV)].category],
     sleep |-> [last_night_hours |-> recentSleep[Len(recentSleep)].duration_hours,
                avg_7_day |-> RoundToTenth(RatDiv(Sum(durationList(recentSleep)),
                                                  Rat(7, 1))),
                score |-> recentSleep[Len(recentSleep)].sleep_score],
     activity |-> activity,
     alerts |-> statusAlerts(recentHRV[Len(recentHRV)],
                             recentSleep[Len(recentSleep)])]

statusFromSeries(today, recentHRV, sleepRun) ==
    [status |-> statusSnapshot(today, recentHRV, sleepRun.data,
                               statusActivity([k \in 1..3 |->
                                                  Random(sleepRun.rng, k - 1)])),
     rng |-> Drawn(sleepRun.rng, 3)]

statusAfterHRV(today, z, now, hrvRun) ==
    statusFromSeries(today, hrvRun.data, generateMockSleep(7, z, now, hrvRun.rng))

\* generateMockStatus(): the snapshot and the random source after the call.
generateMockStatus(z, now, r) ==
    statusAfterHRV(toISODate(now), z, now, generateMockHRV(7, z, now, r))

\* Faulty variant of alertThresholds: an HRV below 25 reported critical.
alertThresholds_CriticalHRV(status) ==
    <<[metric |-> "HRV",
       threshold |-> Rat(30, 1),
       current |-> Rat(status.hrv.current, 1),
       status |-> IF status.hrv.current < 25 THEN "critical"
                  ELSE IF status.hrv.current < 30 THEN "warning" ELSE "ok",
       message |-> IF status.hrv.current < 30 THEN "HRV below recovery threshold"
                   ELSE "HRV within normal range"],
      [metric |-> "Sleep Duration",
       threshold |-> Rat(6, 1),
       current |-> status.sleep.last_night_hours,
       status |-> IF RatLess(status.sleep.last_night_hours, Rat(6, 1))
                  THEN "warning" ELSE "ok",
       message |-> IF RatLess(status.sleep.last_night_hours, Rat(6, 1))
                   THEN "Insufficient sleep duration"
                   ELSE "Sleep duration adequate"],
      [metric |-> "Daily Steps",
       threshold |-> Rat(5000, 1),
       current |-> Rat(status.activity.steps, 1),
       status |-> IF status.activity.steps < 5000 THEN "warning" ELSE "ok",
       message |-> IF status.activity.steps < 5000
                   THEN "Below recommended daily steps"
                   ELSE "Meeting step goals"]>>

\* The array generateMockAlerts returns for the snapshot it generated.
alertThresholds(status) ==
    <<[metric |-> "HRV",
       threshold |-> Rat(30, 1),
       current |-> Rat(status.hrv.current, 1),
       status |-> IF status.hrv.current < 30 THEN "warning" ELSE "ok",
       message |-> IF status.hrv.current < 30 THEN "HRV below recovery threshold"
                   ELSE "HRV within normal range"],
      [metric |-> "Sleep Duration",
       threshold |-> Rat(6, 1),
       current |-> status.sleep.last_night_hours,
       status |-> IF RatLess(status.sleep.last_night_hours, Rat(6, 1))
                  THEN "warning" ELSE "ok",
       message |-> IF RatLess(status.sleep.last_night_hours, Rat(6, 1))
                   THEN "Insufficient sleep duration"
                   ELSE "Sleep duration adequate"],
      [metric |-> "Daily Steps",
       threshold |-> Rat(5000, 1),
       current |-> Rat(status.activity.steps, 1),
       status |-> IF status.activity.steps < 5000 THEN "warning" ELSE "ok",
       message |-> IF status.activity.steps < 5000
                   THEN "Below recommended daily steps"
                   ELSE "Meeting step goals"]>>

alertsOfRun(g) == [alerts |-> alertThresholds(g.status), rng |-> g.rng]

\* generateMockAlerts(): the thresholds and the random source after the
\* call.
generateMockAlerts(z, now, r) == alertsOfRun(generateMockStatus(z, now, r))

(***************************************************************************)
(* health alert (commands/alert)                                           *)
(***************************************************************************)

\* alerts.filter(a => a.status !== 'ok')
activeAlertsOf(alerts) ==
    LET IsActive(a) == a.status # "ok"
    IN  SelectSeq(alerts, IsActive)

CountStatus(alerts, status) ==
    Cardinality({j \in 1..Len(alerts) : alerts[j].status = status})

HasMetric(alerts, metric) == \E j \in 1..Len(alerts) : alerts[j].metric = metric

activeAlertEntry(alert) ==
    [metric |-> alert.metric,
     status |-> alert.status,
     current_value |-> alert.current,
     threshold |-> alert.threshold,
     message |-> alert.message,
     priority |-> IF alert.status = "critical" THEN "high" ELSE "medium"]

\* [...new Set(lines)]: the first occurrence of every line, in order.
Dedupe(lines) ==
    LET IsFirst(j) == \A k \in 1..(j - 1) : lines[k] # lines[j]
        kept == {j \in 1..Len(lines) : IsFirst(j)}
        Rank(j) == Cardinality({k \in kept : k <= j})
    IN  [n \in 1..Cardinality(kept) |-> lines[CHOOSE j \in kept : Rank(j) = n]]

\* Faulty variant of tierLines: only a critical alert adds its lines.
tierLines_CriticalOnly(alert, tier) ==
    IF alert.status = "critical"
    THEN IF alert.metric = "HRV"
         THEN <<<<"Take a rest day or reduce training intensity",
                  "Focus on stress management and recovery practices",
                  "Evaluate training load and recovery balance">>[tier]>>
         ELSE IF alert.metric = "Sleep Duration"
         THEN <<<<"Prioritize earlier bedtime tonight",
                  "Establish consistent sleep schedule",
                  "Optimize sleep environment and hygiene">>[tier]>>
         ELSE IF alert.metric = "Daily Steps"
         THEN <<<<"Take breaks for short walks throughout the day",
                  "Incorporate more movement into daily routine",
                  "Set progressive activity goals">>[tier]>>
         ELSE <<>>
    ELSE <<>>

\* The lines one alert adds to a tier (1 immediate, 2 short_term,
\* 3 long_term).
tierLines(alert, tier) ==
    IF alert.status = "warning" \/ alert.status = "critical"
    THEN IF alert.metric = "HRV"
         THEN <<<<"Take a rest day or reduce training intensity",
                  "Focus on stress management and recovery practices",
                  "Evaluate training load and recovery balance">>[tier]>>
         ELSE IF alert.metric = "Sleep Duration"
         THEN <<<<"Prioritize earlier bedtime tonight",
                  "Establish consistent sleep schedule",
                  "Optimize sleep environment and hygiene">>[tier]>>
         ELSE IF alert.metric = "Daily Steps"
         THEN <<<<"Take breaks for short walks throughout the day",
                  "Incorporate more movement into daily routine",
                  "Set progressive activity goals">>[tier]>>
         ELSE <<>>
    ELSE <<>>

RECURSIVE tierOf(_, _, _)
tierOf(alerts, tier, j) ==
    IF j > Len(alerts) THEN <<>>
    ELSE tierLines(alerts[j], tier) \o tierOf(alerts, tier, j + 1)

tiersWithFallback(immediate, short_term, long_term) ==
    IF Len(immediate) = 0
    THEN [immediate |-> <<"All metrics within normal ranges - maintain current habits">>,
          short_term |-> short_term
                          \o <<"Continue monitoring trends for early detection">>,
          long_term |-> long_term
                          \o <<"Consider expanding health tracking metrics">>]
    ELSE [immediate |-> immediate, short_term |-> short_term,
          long_term |-> long_term]

\* generateAlertRecommendations(alerts)
generateAlertRecommendations(alerts) ==
    tiersWithFallback(Dedupe(tierOf(alerts, 1, 1)),
                      Dedupe(tierOf(alerts, 2, 1)),
                      Dedupe(tierOf(alerts, 3, 1)))

\* tomorrow.setHours(8, 0, 0, 0): local 08:00:00.000 of the day of t.
setHoursExact(z, t, h) ==
    FromLocal(z, (LocalMinutes(z, t) \div MinutesPerDay) * MinutesPerDay + h * 60, 0)

\* getNextCheckTime(): 08:00 local time of the next local calendar day.
getNextCheckTime(z, now) ==
    toISOString(setHoursExact(z, setDateBack(z, now, 0 - 1), 8))

alertResult(alerts, activeAlerts, z, now) ==
    [timestamp |-> toISOString(now),
     alert_summary |-> [total_checks |-> Len(alerts),
                        active_alerts |-> Len(activeAlerts),
                        warnings |-> CountStatus(alerts, "warning"),
                        critical |-> CountStatus(alerts, "critical"),
                        ok |-> CountStatus(alerts, "ok")],
     active_alerts |-> [j \in 1..Len(activeAlerts) |->
                           activeAlertEntry(activeAlerts[j])],
     all_thresholds |-> alerts,
     recommendations |-> generateAlertRecommendations(alerts),
     next_check |-> getNextCheckTime(z, now)]

alertNextActions(activeAlerts) ==
    <<COMMON_ACTIONS.STATUS>>
    \o (IF HasMetric(activeAlerts, "HRV")
        THEN <<NextAction("health hrv --days 14",
                          "Analyze HRV trend to understand alert")>>
        ELSE <<>>)
    \o (IF HasMetric(activeAlerts, "Sleep Duration")
        THEN <<NextAction("health sleep --days 7", "Review recent sleep patterns")>>
        ELSE <<>>)
    \o (IF HasMetric(activeAlerts, "Daily Steps")
        THEN <<NextAction("health status", "Check current activity levels")>>
        ELSE <<>>)
    \o (IF Len(activeAlerts) = 0
        THEN <<COMMON_ACTIONS.HRV, COMMON_ACTIONS.SLEEP>>
        ELSE <<>>)

alertAnswer(alerts, activeAlerts, z, now) ==
    success("alert", alertResult(alerts, activeAlerts, z, now),
            alertNextActions(activeAlerts))

\* The body of alertCommand once generateMockAlerts() has returned alerts.
alertReport(alerts, z, now) == alertAnswer(alerts, activeAlertsOf(alerts), z, now)

alertOfRun(g, z, now) == [response |-> alertReport(g.alerts, z, now), rng |-> g.rng]

\* alertCommand(): the envelope and the random source after the call.
alertCommand(z, now, r) == alertOfRun(generateMockAlerts(z, now, r), z, now)

(***************************************************************************)
(* health alert of the plain-JavaScript entry point                        *)
(***************************************************************************)

\* The alerts alertCommand collects from the snapshot it generated.
alertsPlain(status) ==
    (IF status.hrv.current < 30
     THEN <<[metric |-> "HRV",
             status |-> "warning",
             current |-> Rat(status.hrv.current, 1),
             threshold |-> Rat(30, 1),
             message |-> "HRV below recovery threshold"]>>
     ELSE <<>>)
    \o (IF RatLess(status.sleep.last_night_hours, Rat(6, 1))
        THEN <<[metric |-> "Sleep Duration",
                status |-> "warning",
                current |-> status.sleep.last_night_hours,
                threshold |-> Rat(6, 1),
                message |-> "Insufficient sleep duration"]>>
        ELSE <<>>)

alertResultPlain(alerts, now) ==
    [timestamp |-> toISOString(now),
     alert_summary |-> [total_checks |-> 3,
                        active_alerts |-> Len(alerts),
                        warnings |-> CountStatus(alerts, "warning")],
     active_alerts |-> alerts,
     recommendations |->
         IF Len(alerts) = 0
         THEN <<"All metrics within normal ranges">>
         ELSE [j \in 1..Len(alerts) |->
                  "Address " \o alerts[j].metric \o ": " \o alerts[j].message]]

alertNextActionsPlain(alerts) ==
    <<COMMON_ACTIONS.STATUS>>
    \o (IF HasMetric(alerts, "HRV")
        THEN <<NextAction("health hrv --days 14", "Analyze HRV trend")>>
        ELSE <<>>)
    \o (IF HasMetric(alerts, "Sleep Duration")
        THEN <<NextAction("health sleep --days 7", "Review sleep patterns")>>
        ELSE <<>>)

alertAnswerPlain(alerts, now) ==
    success("alert", alertResultPlain(alerts, now), alertNextActionsPlain(alerts))

\* The body of alertCommand once generateMockStatus() has returned status.
alertReportPlain(status, now) == alertAnswerPlain(alertsPlain(status), now)

alertOfRunPlain(g, now) ==
    [response |-> alertReportPlain(g.status, now), rng |-> g.rng]

\* alertCommand() of the plain-JavaScript entry point.
alertCommandPlain(z, now, r) == alertOfRunPlain(generateMockStatus(z, now, r), now)

(***************************************************************************)
(* health status (commands/status)                                         *)
(***************************************************************************)

\* parts.join(' * ') of the three phrases, the texts without their
\* pictographs and the bullet written as an asterisk.
generateHealthSummary(status) ==
    (IF status.hrv.category = "high" THEN "Excellent recovery state"
     ELSE IF status.hrv.category = "normal" THEN "Normal recovery state"
     ELSE "Low recovery - consider rest")
    \o " * "
    \o (IF ~RatLess(status.sleep.last_night_hours, Rat(8, 1)) THEN "Well rested"
        ELSE IF ~RatLess(status.sleep.last_night_hours, Rat(7, 1))
             THEN "Adequate sleep"
             ELSE "Sleep deprived")
    \o " * "
    \o (IF status.activity.steps >= 10000 THEN "Very active"
        ELSE IF status.activity.steps >= 7500 THEN "Moderately active"
        ELSE "Low activity")

\* The lines generateRecommendations collects ahead of the fallback.
bucketLines(status) ==
    (IF status.hrv.category = "low"
     THEN <<"Consider a rest day or light activity",
            "Focus on stress management and recovery">>
     ELSE <<>>)
    \o (IF RatLess(status.sleep.last_night_hours, Rat(7, 1))
        THEN <<"Prioritize earlier bedtime tonight",
               "Consider sleep hygiene improvements">>
        ELSE <<>>)
    \o (IF status.activity.steps < 7500
        THEN <<"Add more walking or light movement today">>
        ELSE <<>>)

trendLines(status) ==
    IF status.hrv.trend = "down"
    THEN <<"Monitor stress levels and recovery practices">>
    ELSE <<>>

orFallback(recommendations) ==
    IF Len(recommendations) = 0
    THEN <<"Keep up the good work! Maintain current habits">>
    ELSE recommendations

\* generateRecommendations(status)
generateRecommendations(status) == orFallback(bucketLines(status) \o trendLines(status))

\* generateRecommendations(status) of the plain-JavaScript entry point.
generateRecommendationsPlain(status) == orFallback(bucketLines(status))

statusResult(status, recommendations) ==
    [date |-> status.date,
     hrv |-> status.hrv,
     sleep |-> status.sleep,
     activity |-> status.activity,
     alerts |-> status.alerts,
     summary |-> generateHealthSummary(status),
     recommendations |-> recommendations]

statusNextActions(status) ==
    (IF Len(status.alerts) > 0 THEN <<COMMON_ACTIONS.ALERTS>> ELSE <<>>)
    \o <<COMMON_ACTIONS.HRV, COMMON_ACTIONS.SLEEP, COMMON_ACTIONS.ALERTS>>
    \o (IF status.hrv.category = "low"
        THEN <<NextAction("health hrv --days 14", "Analyze HRV trend over 2 weeks")>>
        ELSE <<>>)
    \o (IF RatLess(status.sleep.last_night_hours, Rat(7, 1))
        THEN <<NextAction("health sleep --days 7", "Review sleep patterns this week")>>
        ELSE <<>>)

\* The body of statusCommand once generateMockStatus() has returned status.
statusReport(status) ==
    success("status", statusResult(status, generateRecommendations(status)),
            statusNextActions(status))

statusOfRun(g) == [response |-> statusReport(g.status), rng |-> g.rng]

\* statusCommand(): the envelope and the random source after the call.
statusCommand(z, now, r) == statusOfRun(generateMockStatus(z, now, r))

statusNextActionsPlain(status) ==
    (IF Len(status.alerts) > 0 THEN <<COMMON_ACTIONS.ALERTS>> ELSE <<>>)
    \o <<COMMON_ACTIONS.HRV, COMMON_ACTIONS.SLEEP, COMMON_ACTIONS.ALERTS>>

\* The body of statusCommand of the plain-JavaScript entry point.
statusReportPlain(status) ==
    success("status", statusResult(status, generateRecommendationsPlain(status)),
            statusNextActionsPlain(status))

statusOfRunPlain(g) == [response |-> statusReportPlain(g.status), rng |-> g.rng]

\* statusCommand() of the plain-JavaScript entry point.
statusCommandPlain(z, now, r) == statusOfRunPlain(generateMockStatus(z, now, r))

(***************************************************************************)
(* The generators as a state machine                                       *)
(***************************************************************************)

MaxDays == 3

\* Europe/Berlin around 2026-03-29T01:00Z (+01:00 to +02:00), America/
\* New_York around 2026-11-01T06:00Z (-04:00 to -05:00), and UTC.
Zones ==
    {[before |-> 60, after |-> 120, at |-> 20541 * MinutesPerDay + 60],
     [before |-> 0 - 240, after |-> 0 - 300, at |-> 20758 * MinutesPerDay + 360],
     [before |-> 0, after |-> 0, at |-> 0]}

\* Readings of the clock: early and late in the UTC days 2026-03-30,
\* 2026-06-15 and 2026-11-01, at the start and the end of a minute.
Clocks ==
    {Instant(d * MinutesPerDay + m, ms) :
        d \in {20542, 20619, 20758}, m \in {30, 1410}, ms \in {0, 59999}}

InitGen ==
    /\ pc = "start"
    /\ days \in 1..MaxDays
    /\ clock \in Clocks
    /\ tz \in Zones
    /\ rng \in [tape : Tapes, pos : {0}]
    /\ file = NoValue
    /\ series = NoValue
    /\ argv = NoValue
    /\ out = NoValue

GenerateMockHRV ==
    /\ pc = "start"
    /\ LET g == generateMockHRV(days, tz, clock, rng)
       IN  /\ out' = [kind |-> "hrv", data |-> g.data]
           /\ rng' = g.rng
    /\ pc' = "done"
    /\ UNCHANGED <<days, clock, tz, file, series, argv>>

GenerateMockSleep ==
    /\ pc = "start"
    /\ LET g == generateMockSleep(days, tz, clock, rng)
       IN  /\ out' = [kind |-> "sleep", data |-> g.data]
           /\ rng' = g.rng
    /\ pc' = "done"
    /\ UNCHANGED <<days, clock, tz, file, series, argv>>

NextGen == GenerateMockHRV \/ GenerateMockSleep

SpecGen == InitGen /\ [][NextGen]_vars

(***************************************************************************)
(* The trend functions as a state machine                                  *)
(***************************************************************************)

MaxLen == 6

\* Values of a series: whole numbers and numbers with one decimal.
SeriesValues == {Rat(0, 1), Rat(2, 10), Rat(3, 10), Rat(1, 1), Rat(5, 1)}

SeriesSet ==
    UNION {[1..n -> SeriesValues] : n \in 1..MaxLen}
    \cup {[j \in 1..6 |-> IF j <= 3 THEN Rat(10, 1) ELSE Rat(1, 1)]}

InitTrend ==
    /\ pc = "start"
    /\ series \in SeriesSet
    /\ argv = NoValue
    /\ days = NoValue
    /\ clock = NoValue
    /\ tz = NoValue
    /\ rng = NoValue
    /\ file = NoValue
    /\ out = NoValue

\* analyzeHRVTrend on samples of the values of the series; the value of an
\* HRV sample is a whole number.
AnalyzeHRVTrend ==
    /\ pc = "start"
    /\ \A j \in 1..Len(series) : series[j].d = 1
    /\ out' = [kind |-> "hrv",
               trend |-> analyzeHRVTrend([j \in 1..Len(series) |-> [value |-> series[j].n]])]
    /\ pc' = "done"
    /\ UNCHANGED <<days, clock, tz, rng, file, series, argv>>

\* calculateTrend on the series.
CalculateTrend ==
    /\ pc = "start"
    /\ out' = [kind |-> "coarse", trend |-> calculateTrend(series)]
    /\ pc' = "done"
    /\ UNCHANGED <<days, clock, tz, rng, file, series, argv>>

NextTrend == AnalyzeHRVTrend \/ CalculateTrend

SpecTrend == InitTrend /\ [][NextTrend]_vars

(***************************************************************************)
(* health hrv and health sleep as a state machine                          *)
(***************************************************************************)

\* Values of --days: around both ends of the accepted range, around the
\* 10 samples a report shows, the values that change the suggested
\* actions, and a negative one.
DaysValues == {0 - 1, 0, 1, 2, 3, 7, 10, 11, 14, 30, 89, 90, 91, 92}

\* Tapes of the random source for the commands, of lengths that do and do
\* not divide the draws a sample takes.
CommandTapes == {<<1>>, <<2, 0>>, <<0, 1, 3>>, <<3, 2, 1, 0, 2>>}

InitCmd ==
    /\ pc = "start"
    /\ days \in DaysValues
    /\ clock \in Clocks
    /\ tz \in Zones
    /\ rng \in [tape : CommandTapes, pos : {0}]
    /\ file = NoValue
    /\ series = NoValue
    /\ argv = NoValue
    /\ out = NoValue

\* health hrv --days <days>
HrvCommand ==
    /\ pc = "start"
    /\ LET c == hrvCommand(days, tz, clock, rng)
       IN  /\ out' = c.response
           /\ rng' = c.rng
    /\ pc' = "done"
    /\ UNCHANGED <<days, clock, tz, file, series, argv>>

\* health sleep --days <days>
SleepCommand ==
    /\ pc = "start"
    /\ LET c == sleepCommand(days, tz, clock, rng)
       IN  /\ out' = c.response
           /\ rng' = c.rng
    /\ pc' = "done"
    /\ UNCHANGED <<days, clock, tz, file, series, argv>>

NextCmd == HrvCommand \/ SleepCommand

SpecCmd == InitCmd /\ [][NextCmd]_vars

(***************************************************************************)
(* health status and health alert on snapshots of their own                *)
(***************************************************************************)

\* The snapshots the reports are applied to: HRV values before rounding on
\* both sides of 30 and of 60, a night on both sides of 6, 7 and 8 hours,
\* steps on both sides of 5000, 7500 and 10000.
SnapshotHRVValues == {Rat(24, 1), Rat(29, 1), Rat(59, 2), Rat(30, 1), Rat(45, 1), Rat(61, 1)}

SnapshotPreviousHRV == {30, 45}

SnapshotHours == {Rat(59, 10), Rat(6, 1), Rat(69, 10), Rat(7, 1), Rat(8, 1)}

SnapshotSteps == {4999, 5000, 7499, 7500, 10000}

SnapshotHRVSample(value) ==
    [date |-> "2026-06-15", value |-> MathRound(value), category |-> HRVCategory(value)]

SnapshotSleepSample(hours) ==
    [date |-> "2026-06-15", duration_hours |-> hours,
     deep_sleep_hours |-> Rat(3, 2), rem_sleep_hours |-> Rat(2, 1),
     sleep_score |-> 80, bedtime |-> "23:00", wake_time |-> "07:00"]

Snapshots ==
    {statusSnapshot("2026-06-15",
                    [j \in 1..7 |-> SnapshotHRVSample(IF j < 7 THEN Rat(p, 1) ELSE v)],
                    [j \in 1..7 |-> SnapshotSleepSample(IF j < 7 THEN Rat(15, 2) ELSE h)],
                    [steps |-> s, active_calories |-> 500, exercise_minutes |-> 30]) :
        p \in SnapshotPreviousHRV, v \in SnapshotHRVValues,
        h \in SnapshotHours, s \in SnapshotSteps}

InitStatus ==
    /\ pc = "start"
    /\ days = NoValue
    /\ clock \in Clocks
    /\ tz \in Zones
    /\ rng = NoValue
    /\ file = NoValue
    /\ series \in Snapshots
    /\ argv = NoValue
    /\ out = NoValue

\* health alert, its snapshot being series
AlertReport ==
    /\ pc = "start"
    /\ out' = alertReport(alertThresholds(series), tz, clock)
    /\ pc' = "done"
    /\ UNCHANGED <<days, clock, tz, rng, file, series, argv>>

\* health alert of the plain-JavaScript entry point, its snapshot being
\* series
AlertReportPlain ==
    /\ pc = "start"
    /\ out' = alertReportPlain(series, clock)
    /\ pc' = "done"
    /\ UNCHANGED <<days, clock, tz, rng, file, series, argv>>

\* health status, its snapshot being series
StatusReport ==
    /\ pc = "start"
    /\ out' = statusReport(series)
    /\ pc' = "done"
    /\ UNCHANGED <<days, clock, tz, rng, file, series, argv>>

\* health status of the plain-JavaScript entry point, its snapshot being
\* series
StatusReportPlain ==
    /\ pc = "start"
    /\ out' = statusReportPlain(series)
    /\ pc' = "done"
    /\ UNCHANGED <<days, clock, tz, rng, file, series, argv>>

NextStatus == AlertReport \/ AlertReportPlain \/ StatusReport \/ StatusReportPlain

SpecStatus == InitStatus /\ [][NextStatus]_vars

(***************************************************************************)
(* The sleep analytics on series of their own                              *)
(***************************************************************************)

MaxNights == 3

\* What a night can be: durations on both sides of 8 hours, scores that
\* repeat, bedtimes before and after midnight.
NightProfiles ==
    {[duration_hours |-> Rat(13, 2), sleep_score |-> 60,
      bedtime |-> "22:00", wake_time |-> "04:30"],
     [duration_hours |-> Rat(79, 10), sleep_score |-> 80,
      bedtime |-> "23:30", wake_time |-> "07:24"],
     [duration_hours |-> Rat(8, 1), sleep_score |-> 80,
      bedtime |-> "22:00", wake_time |-> "06:00"],
     [duration_hours |-> Rat(9, 1), sleep_score |-> 95,
      bedtime |-> "00:59", wake_time |-> "09:59"],
     [duration_hours |-> Rat(81, 10), sleep_score |-> 60,
      bedtime |-> "23:00", wake_time |-> "07:06"]}

\* The sample of the j-th of n nights ending 2026-06-15.
NightSample(profile, j, n) ==
    [date |-> DayText(20619 - (n - j)),
     duration_hours |-> profile.duration_hours,
     deep_sleep_hours |-> RoundToTenth(RatMul(profile.duration_hours, Rat(1, 5))),
     rem_sleep_hours |-> RoundToTenth(RatMul(profile.duration_hours, Rat(1, 4))),
     sleep_score |-> profile.sleep_score,
     bedtime |-> profile.bedtime,
     wake_time |-> profile.wake_time]

\* The series of n consecutive nights, oldest first.
NightSeries(n) ==
    {[j \in 1..n |-> NightSample(profiles[j], j, n)] :
        profiles \in [1..n -> NightProfiles]}

SleepSeriesSet == UNION {NightSeries(n) : n \in 1..MaxNights}

InitSleep ==
    /\ pc = "start"
    /\ days = NoValue
    /\ clock = NoValue
    /\ tz = NoValue
    /\ rng = NoValue
    /\ file = NoValue
    /\ series \in SleepSeriesSet
    /\ argv = NoValue
    /\ out = NoValue

CalculateSleepDebt ==
    /\ pc = "start"
    /\ out' = [kind |-> "debt", debt |-> calculateSleepDebt(series)]
    /\ pc' = "done"
    /\ UNCHANGED <<days, clock, tz, rng, file, series, argv>>

AnalyzeSleepPattern ==
    /\ pc = "start"
    /\ out' = [kind |-> "pattern", pattern |-> analyzeSleepPattern(series)]
    /\ pc' = "done"
    /\ UNCHANGED <<days, clock, tz, rng, file, series, argv>>

CalculateSleepConsistency ==
    /\ pc = "start"
    /\ out' = [kind |-> "consistency",
               consistency |-> calculateSleepConsistency(series)]
    /\ pc' = "done"
    /\ UNCHANGED <<days, clock, tz, rng, file, series, argv>>

NextSleep == CalculateSleepDebt \/ AnalyzeSleepPattern \/ CalculateSleepConsistency

SpecSleep == InitSleep /\ [][NextSleep]_vars

(***************************************************************************)
(* The scanner on long documents                                           *)
(***************************************************************************)

\* How often the unit is repeated: around the SampleCap of 1000 openers
\* and around the LargeDatasetLimit of 50000 records.
RepeatCounts == {0, 1, 2, 999, 1000, 1001, 49999, 50000, 50001}

HeadBlocks ==
    {"<Export>",
     "<HealthData>",
     "<HealthData><Record type=\"HKCategoryTypeIdentifierSleepAnalysis\" startDate=\"2024-01-03 08:00:00 +0000\"/>",
     "<HealthData><Record type=\"HKQuantityTypeIdentifierHeartRateVariabilitySDNN\" startDate=\"2024-01-01 08:00:00 +0000\"/>"}

UnitBlocks ==
    {"<Record type=\"HKQuantityTypeIdentifierStepCount\" startDate=\"2024-01-02 09:00:00 +0000\"/>",
     "<Record type=\"HKCategoryTypeIdentifierSleepAnalysis\" startDate=\"2024-01-03 08:00:00 +0000\"/>",
     "<Workout workoutActivityType=\"HKWorkoutActivityTypeRunning\" startDate=\"2024-01-02 07:00:00 +0000\"/>",
     "<Record startDate=\"\"/>",
     "<Record type=\"\" startDate=\"2024-01-04 08:00:00 +0000\"/>",
     "<Record subtype=\"Extra\" startDate=\"2024-01-04 09:00:00 +0000\"/>"}

TailBlocks ==
    {"</HealthData>",
     "<Record type=\"HKCategoryTypeIdentifierSleepAnalysis\" startDate=\"2023-12-31 23:00:00 +0000\"/></HealthData>",
     "<Record type=\"HKQuantityTypeIdentifierHeartRateVariabilitySDNN\" startDate=\"2024-02-01 08:00:00 +0000\"/></HealthData>",
     "<Correlation startDate=\" 2024-01-05\"/></HealthData>"}

BlockDocs ==
    [head : HeadBlocks, unit : UnitBlocks, times : RepeatCounts, tail : TailBlocks]

InitScan ==
    /\ pc = "start"
    /\ file \in BlockDocs
    /\ days = NoValue
    /\ clock = NoValue
    /\ tz = NoValue
    /\ rng = NoValue
    /\ series = NoValue
    /\ argv = NoValue
    /\ out = NoValue

\* parseAppleHealthXML(xmlContent), xmlContent the text of the blocks
ParseAppleHealthXML ==
    /\ pc = "start"
    /\ out' = parseAppleHealthXMLBlocks(file)
    /\ pc' = "done"
    /\ UNCHANGED <<days, clock, tz, rng, file, series, argv>>

NextScan == ParseAppleHealthXML

SpecScan == InitScan /\ [][NextScan]_vars

(***************************************************************************)
(* Claims about the scanner and the import command                         *)
(***************************************************************************)

\* The file was handed to the scanner: it exists, is within the size limit
\* and could be read.
Scanned(f) == f.exists /\ f.size <= MaxFileBytes /\ f.readable

ImportDone == pc = "done" /\ file # NoValue

InSeq(x, q) == \E i \in 1..Len(q) : q[i] = x

\* C1: scanning the literal document of the specification's section 8.6
\* returns 2 records, the data types "Heart Rate Variability SDNN" and
\* "Sleep Analysis", the date range 2024-01-01 .. 2024-01-03, and warnings
\* with the privacy notice but without the HRV and Sleep "not found" lines.
C1_Section86ScanResult ==
    (ImportDone /\ Scanned(file) /\ file.content = Section86Doc) =>
        /\ out.ok
        /\ out.result.records_processed = 2
        /\ out.result.data_types = <<"Heart Rate Variability SDNN", "Sleep Analysis">>
        /\ out.result.date_range = [start |-> "2024-01-01", end |-> "2024-01-03"]
        /\ ~InSeq(WarnNoHRV, out.result.warnings)
        /\ ~InSeq(WarnNoSleep, out.result.warnings)
        /\ InSeq(PrivacyNotice, out.result.warnings)

\* The text holds the eleven characters <HealthData somewhere.
HasRootMarker(text) ==
    \E i \in 1..(Len(text) - 10) : SubSeq(text, i, i + 10) = "<HealthData"

\* C2: a scanned text without the substring <HealthData makes the import
\* fail with PARSE_ERROR and no result; a scanned text with it succeeds,
\* whatever else the text holds.
C2_ScanFailsIffRootMarkerAbsent ==
    (ImportDone /\ Scanned(file)) =>
        /\ out.ok <=> HasRootMarker(file.content)
        /\ out.ok => "result" \in DOMAIN out
        /\ ~out.ok => /\ out.error.code = "PARSE_ERROR"
                      /\ "result" \notin DOMAIN out

\* C2 witness: a damaged text that names HealthData without the opening
\* bracket was scanned and refused.
C2_Witness ==
    /\ ImportDone
    /\ Scanned(file)
    /\ file.content = "</HealthData>"
    /\ ~out.ok

\* The characters that end an element name in a tag.
NameEnds == WhiteChars \cup {"/", ">"}

\* Every '<' of the text opens a tag that is closed by a '>' before the
\* next '<'.
TagsClosed(text) ==
    \A p \in 1..Len(text) :
        CharAt(text, p) = "<" =>
            \E e \in (p + 1)..Len(text) :
                /\ CharAt(text, e) = ">"
                /\ \A k \in (p + 1)..(e - 1) : CharAt(text, k) # "<"

\* The number of opening tags of the elements named name.
OpeningTags(text, name) ==
    Cardinality({p \in 1..Len(text) :
        /\ StartsWithAt(text, p, "<" \o name)
        /\ p + Len(name) + 1 <= Len(text)
        /\ CharAt(text, p + Len(name) + 1) \in NameEnds})

\* C3: records_processed is the number of opening tags of elements named
\* Record plus those named Workout; elements of any other name
\* (WorkoutEvent, RecordSet) are not counted.  Stated for the texts whose
\* tags are all closed.
C3_CountsRecordAndWorkoutOnly ==
    (ImportDone /\ Scanned(file) /\ out.ok /\ TagsClosed(file.content)) =>
        out.result.records_processed =
            OpeningTags(file.content, "Record") + OpeningTags(file.content, "Workout")

(***************************************************************************)
(* Claims about the mock data generators                                   *)
(***************************************************************************)

GenDone(kind) == pc = "done" /\ out.kind = kind

\* C5: generateMockHRV(n) and generateMockSleep(n) return exactly n samples,
\* oldest first, dated n consecutive calendar days of which the last is the
\* current calendar day (the day the clock shows in UTC or on the local
\* wall clock).
C5_ConsecutiveDaysEndingToday ==
    pc = "done" =>
        /\ Len(out.data) = days
        /\ \E today \in {UTCDay(clock), LocalDay(tz, clock)} :
              \A j \in 1..days : out.data[j].date = DayText(today - (days - j))

\* The category the claim derives from a stored value.
CategoryOfStored(v) == IF v < 30 THEN "low" ELSE IF v > 60 THEN "high" ELSE "normal"

\* C6: the category of every sample of generateMockHRV is the category of
\* its stored, rounded value: low below 30, high above 60, normal otherwise.
C6_CategoryFollowsStoredValue ==
    GenDone("hrv") =>
        \A j \in 1..Len(out.data) :
            out.data[j].category = CategoryOfStored(out.data[j].value)

\* Samples at both ends of the range the generator produces have been
\* returned in one series.
C6_Witness ==
    /\ GenDone("hrv")
    /\ Len(out.data) = MaxDays
    /\ out.data[1].value = 35
    /\ out.data[MaxDays].value = 50
    /\ out.data[1].category = "normal"

\* Minutes from the bedtime text to the wake text of a sample, less the
\* reported duration, on the 24-hour clock.
WakeExcess(s) ==
    (timeToMinutes(s.wake_time) - timeToMinutes(s.bedtime)
        - (s.duration_hours.n * 60) \div s.duration_hours.d) % MinutesPerDay

\* The UTC offset changes between 22:00 of the j-th sample's local day and
\* 10:00 of the next.
OffsetChangesInNight(j) ==
    LET day == LocalDay(tz, clock) - (days - j)
    IN  /\ tz.before # tz.after
        /\ tz.at >= day * MinutesPerDay + 22 * 60 - Max(tz.before, tz.after)
        /\ tz.at <= (day + 1) * MinutesPerDay + 10 * 60 - Min(tz.before, tz.after)

\* C7 as claimed: the wake time of every sample of generateMockSleep is its
\* bedtime plus its reported duration_hours exactly, on the 24-hour clock.
C7_WakeIsBedtimePlusReported ==
    GenDone("sleep") =>
        \A j \in 1..Len(out.data) : WakeExcess(out.data[j]) = 0

\* C7 as amended: the generator draws six random values for a sample, none
\* of them for the wake time, and in a night without a change of UTC offset
\* the wake time is within 4 minutes of bedtime plus the reported
\* duration_hours, on the 24-hour clock.
C7_WakeWithinRounding ==
    GenDone("sleep") =>
        /\ rng.pos = 6 * days
        /\ \A j \in 1..Len(out.data) :
              ~OffsetChangesInNight(j) =>
                  \/ WakeExcess(out.data[j]) <= 4
                  \/ WakeExcess(out.data[j]) >= MinutesPerDay - 4

\* A sample of a night without a change of offset whose wake time is 3
\* minutes short of bedtime plus the reported duration.
C7_Witness ==
    /\ GenDone("sleep")
    /\ \E j \in 1..Len(out.data) :
          /\ ~OffsetChangesInNight(j)
          /\ WakeExcess(out.data[j]) = MinutesPerDay - 3

(***************************************************************************)
(* Claims about trend classification                                       *)
(***************************************************************************)

TrendDone(kind) == pc = "done" /\ out.kind = kind

DecliningExample == <<Rat(10, 1), Rat(10, 1), Rat(10, 1), Rat(1, 1), Rat(1, 1), Rat(1, 1)>>

StableExample == <<Rat(5, 1), Rat(5, 1), Rat(5, 1), Rat(5, 1), Rat(5, 1), Rat(5, 1)>>

\* The mean of three numbers.
Mean3(a, b, c) == RatDiv(RatAdd(a, RatAdd(b, c)), Rat(3, 1))

\* The mean of the first three elements of a series of 3 or more.
EarlierMean(s) == Mean3(s[1], s[2], s[3])

\* The mean of the last three elements of a series of 3 or more.
RecentMean(s) == Mean3(s[Len(s) - 2], s[Len(s) - 1], s[Len(s)])

\* The direction the rule gives a change under a threshold.
DirectionOf(change, threshold) ==
    IF RatLess(RatAbs(change), threshold) THEN "stable"
    ELSE IF RatLess(Rat(0, 1), change) THEN "improving"
    ELSE "declining"

C9_ShortSeriesInsufficient ==
    (pc = "done" /\ Len(series) < 3) =>
        /\ out.kind = "hrv" =>
              out.trend.direction = "insufficient_data" /\ out.trend.change = 0
        /\ out.kind = "coarse" => out.trend = "insufficient_data"

\* C10: in the HRV trend of a series of 3 or more, change_percent is
\* round(change / earlier * 100) when the mean of the first 3 elements is
\* not zero, and the number 0 when it is zero.
C10_ChangePercentDefined ==
    (TrendDone("hrv") /\ Len(series) >= 3) =>
        LET earlier == EarlierMean(series)
            change  == RatSub(RecentMean(series), earlier)
        IN  IF earlier.n # 0
            THEN out.trend.change_percent =
                     Rat(MathRound(RatMul(RatDiv(change, earlier), Rat(100, 1))), 1)
            ELSE out.trend.change_percent = Rat(0, 1)


(***************************************************************************)
(* Claims about health hrv and health sleep                                *)
(***************************************************************************)

\* The draws of Math.random() a generator takes for one sample of the
\* command that answered.
DrawsPerSample ==
    IF out.command = "health hrv --days " \o ToString(days) THEN 1 ELSE 6

\* C4: health hrv and health sleep answer with a success envelope exactly
\* when days is in 1..90 (1 and 90 accepted, 0 and 91 refused); otherwise
\* with ok = false, code INVALID_DAYS_RANGE and the fix 'Use a value between
\* 1 and 90 days', no sample having been generated (no random value drawn).
C4_DaysRangeChecked ==
    pc = "done" =>
        /\ out.ok <=> days \in 1..90
        /\ out.ok => rng.pos = DrawsPerSample * days
        /\ ~out.ok =>
              /\ out.error.code = "INVALID_DAYS_RANGE"
              /\ out.fix = "Use a value between 1 and 90 days"
              /\ rng.pos = 0

\* health sleep --days 91 has been refused.
C4_Witness ==
    /\ pc = "done"
    /\ days = 91
    /\ out.command = "health sleep --days 91"
    /\ ~out.ok
    /\ out.error.code = "INVALID_DAYS_RANGE"
    /\ rng.pos = 0

(***************************************************************************)
(* Claims about health status and health alert                             *)
(***************************************************************************)

\* An alert check has answered.
AlertDone == pc = "done" /\ out.command = "health alert"

\* The alert check of commands/alert answered: its result lists every
\* threshold.
AlertListed == AlertDone /\ "all_thresholds" \in DOMAIN out.result

\* The metrics the alert check reports as warning.
WarningMetrics ==
    {out.result.active_alerts[j].metric :
        j \in {k \in 1..Len(out.result.active_alerts) :
                  out.result.active_alerts[k].status = "warning"}}

\* C11: every alert check evaluates the three metrics, each with a strict
\* comparison: HRV is warning exactly when hrv.current < 30, Sleep Duration
\* exactly when last_night_hours < 6, Daily Steps exactly when steps < 5000
\* (30, 6 and 5000 themselves are ok).
C11_ThreeStrictThresholds ==
    AlertDone =>
        /\ "HRV" \in WarningMetrics <=> series.hrv.current < 30
        /\ "Sleep Duration" \in WarningMetrics
              <=> RatLess(series.sleep.last_night_hours, Rat(6, 1))
        /\ "Daily Steps" \in WarningMetrics <=> series.activity.steps < 5000
        /\ AlertListed =>
              /\ Len(out.result.all_thresholds) = 3
              /\ \A j \in 1..3 :
                    out.result.all_thresholds[j].status = "warning"
                        <=> out.result.all_thresholds[j].metric \in WarningMetrics

\* C12: no threshold is ever critical: in the result of every alert check
\* each entry of all_thresholds is ok or warning, alert_summary.critical is
\* 0 and no active alert has priority high.
C12_NeverCritical ==
    AlertListed =>
        /\ \A j \in 1..Len(out.result.all_thresholds) :
              out.result.all_thresholds[j].status \in {"ok", "warning"}
        /\ out.result.alert_summary.critical = 0
        /\ \A j \in 1..Len(out.result.active_alerts) :
              out.result.active_alerts[j].priority # "high"

\* An alert check found the HRV of 24 and 4999 steps under their
\* thresholds: two active alerts, both warnings of priority medium.
C12_Witness ==
    /\ AlertListed
    /\ series.hrv.current = 24
    /\ series.activity.steps = 4999
    /\ Len(out.result.active_alerts) = 2
    /\ out.result.active_alerts[1].status = "warning"
    /\ out.result.active_alerts[1].priority = "medium"
    /\ out.result.alert_summary.warnings = 2

\* A status report has answered.
StatusDone == pc = "done" /\ out.command = "health status"

FallbackLine == "Keep up the good work! Maintain current habits"

\* None of the threshold buckets triggers: the HRV category is not low,
\* last night had 7 hours or more and the steps are 7500 or more.
NoBucketTriggers ==
    /\ series.hrv.category # "low"
    /\ ~RatLess(series.sleep.last_night_hours, Rat(7, 1))
    /\ series.activity.steps >= 7500

\* C17: the recommendations of the status result are never empty; they are
\* the fallback line alone exactly when no threshold bucket triggers, and
\* when one triggers the fallback line is not among them.
C17_FallbackIffNoBucket ==
    StatusDone =>
        /\ Len(out.result.recommendations) > 0
        /\ out.result.recommendations = <<FallbackLine>> <=> NoBucketTriggers
        /\ ~NoBucketTriggers =>
              \A j \in 1..Len(out.result.recommendations) :
                  out.result.recommendations[j] # FallbackLine

(***************************************************************************)
(* Claims about the sleep analytics                                        *)
(***************************************************************************)

SleepDone(kind) == pc = "done" /\ out.kind = kind

\* What one night adds to the debt: max(0, 8 - duration_hours).
NightDebt(night) == RatMax(Rat(0, 1), RatSub(Rat(8, 1), night.duration_hours))

\* The series without its j-th night.
WithoutNight(data, j) == SubSeq(data, 1, j - 1) \o SubSeq(data, j + 1, Len(data))

\* Every night of later is at least as long as the same night of earlier.
NoShorter(later, earlier) ==
    \A j \in 1..Len(earlier) :
        ~RatLess(later[j].duration_hours, earlier[j].duration_hours)

\* C13: the sleep debt is the sum over the nights of max(0, 8 -
\* duration_hours); it is never negative, a night of 8 hours or more adds
\* nothing to it, and a series of the same length whose nights are all at
\* least as long has no larger debt.
C13_DebtIsSumOfShortfalls ==
    SleepDone("debt") =>
        /\ out.debt.total_hours = Sum([j \in 1..Len(series) |-> NightDebt(series[j])])
        /\ ~RatLess(out.debt.total_hours, Rat(0, 1))
        /\ \A j \in 1..Len(series) :
              (Len(series) > 1 /\ ~RatLess(series[j].duration_hours, Rat(8, 1))) =>
                  calculateSleepDebt(WithoutNight(series, j)).total_hours
                      = out.debt.total_hours
        /\ \A later \in NightSeries(Len(series)) :
              NoShorter(later, series) =>
                  ~RatLess(out.debt.total_hours, calculateSleepDebt(later).total_hours)

\* The debt of three nights of 6.5, 9 and 7.9 hours is 1.6 hours: the night
\* of 9 hours added nothing.
C13_Witness ==
    /\ SleepDone("debt")
    /\ Len(series) = 3
    /\ series[1].duration_hours = Rat(13, 2)
    /\ series[2].duration_hours = Rat(9, 1)
    /\ series[3].duration_hours = Rat(79, 10)
    /\ out.debt.total_hours = Rat(16, 10)

(***************************************************************************)
(* Claims about the scanner on long documents                              *)
(***************************************************************************)

\* A scan of the blocks returned a result.
ScanDone == pc = "done" /\ ~out.threw

\* The text of a document of few repetitions.
RECURSIVE RepeatText(_, _)
RepeatText(unit, times) ==
    IF times = 0 THEN "" ELSE unit \o RepeatText(unit, times - 1)

BlocksText(doc) == doc.head \o RepeatText(doc.unit, doc.times) \o doc.tail

\* The scan of the blocks is the scan of their text.
BlocksScanIsTextScan ==
    (pc = "done" /\ file.times <= 2) => out = parseAppleHealthXML(BlocksText(file))

StartDateKey == "startDate=\""

\* The values of the startDate="..." occurrences of a text, the empty ones
\* among them: what stands between the key and the next quote.
StartDateValuesIn(text) ==
    {IF q = p + Len(StartDateKey) THEN "" ELSE SubSeq(text, p + Len(StartDateKey), q - 1) :
        <<p, q>> \in {pq \in (1..Len(text)) \X (1..Len(text)) :
                        /\ StartsWithAt(text, pq[1], StartDateKey)
                        /\ pq[2] = IndexOfFrom(text, "\"", pq[1] + Len(StartDateKey))}}

\* The startDate values of the whole document.
DocStartDates(doc) ==
    StartDateValuesIn(doc.head)
        \cup (IF doc.times > 0 THEN StartDateValuesIn(doc.unit) ELSE {})
        \cup StartDateValuesIn(doc.tail)

LeastString(S) == CHOOSE x \in S : \A y \in S : ~StrLess(y, x)

GreatestString(S) == CHOOSE x \in S : \A y \in S : ~StrLess(x, y)

\* The calendar-day portion of a value: what stands ahead of its first
\* space.
DayPortion(v) ==
    LET K == {k \in 0..Len(v) : \A i \in 1..k : CharAt(v, i) # " "}
    IN  SubSeq(v, 1, CHOOSE k \in K : \A m \in K : m <= k)

\* No character of the values sorts below the space.
NoControlCharacter(S) ==
    \A v \in S : \A i \in 1..Len(v) : CodeOf(CharAt(v, i)) >= 32

\* C14 as stated: the range is the day portion of the least and of the
\* greatest startDate value of the whole document, start <= end, and both
\* are empty exactly when the document has no startDate attribute.
C14_RangeOfAllStartDates ==
    ScanDone =>
        /\ DocStartDates(file) # {} =>
              /\ out.dateRange.start = DayPortion(LeastString(DocStartDates(file)))
              /\ out.dateRange.end = DayPortion(GreatestString(DocStartDates(file)))
        /\ ~StrLess(out.dateRange.end, out.dateRange.start)
        /\ (out.dateRange.start = "" /\ out.dateRange.end = "")
              <=> DocStartDates(file) = {}

\* C14, amended: the range is the day portion of the least and of the
\* greatest non-empty startDate value of the whole document, whichever
\* element carries it and however many Record openers stand ahead of it;
\* start <= end when no value holds a character below the space; both are
\* empty exactly when the document has no non-empty value or its least and
\* its greatest value both begin with a space.
C14_RangeOfNonEmptyStartDates ==
    ScanDone =>
        LET V == DocStartDates(file) \ {""}
        IN  /\ V # {} =>
                  /\ out.dateRange.start = DayPortion(LeastString(V))
                  /\ out.dateRange.end = DayPortion(GreatestString(V))
            /\ NoControlCharacter(V) => ~StrLess(out.dateRange.end, out.dateRange.start)
            /\ (out.dateRange.start = "" /\ out.dateRange.end = "")
                  <=> \/ V = {}
                      \/ /\ CharAt(LeastString(V), 1) = " "
                         /\ CharAt(GreatestString(V), 1) = " "

\* The least startDate stands in the 1001st Record opener, behind 1000
\* openers of a later day, and is the start of the range.
C14_Witness ==
    /\ ScanDone
    /\ file.head = "<HealthData>"
    /\ file.times = 1000
    /\ Len(RecordMatches(file.unit)) = 1
    /\ DocStartDates(file) = {"2024-01-02 09:00:00 +0000", "2023-12-31 23:00:00 +0000"}
    /\ out.recordCount = 1001
    /\ out.dateRange = [start |-> "2023-12-31", end |-> "2024-01-02"]

\* One of the Record openers the scanner samples for their type, the
\* first SampleCap of the document, carries the type.
SampledCarries(type) ==
    LET sample == SliceHead(BlocksRecordMatches(file), SampleCap)
    IN  \E opener \in {sample[j] : j \in 1..Len(sample)} :
            Includes(opener, "type=\"" \o type \o "\"")

\* C15: the warnings of a successful scan are, in this order, the
\* zero-records warning exactly when records_processed = 0, the
\* large-dataset warning exactly when records_processed > 50000, the HRV
\* warning exactly when no sampled Record carries the HRV-SDNN type, the
\* Sleep warning exactly when none carries the Sleep-Analysis type, and
\* the privacy notice, always and last.
C15_WarningsInFixedOrder ==
    ScanDone =>
        out.warnings =
            (IF out.recordCount = 0 THEN <<WarnNoRecords>> ELSE << >>)
            \o (IF out.recordCount > 50000
                THEN <<"Large dataset (" \o ToString(out.recordCount)
                          \o " records) - processing limited for demo">>
                ELSE << >>)
            \o (IF ~SampledCarries("HKQuantityTypeIdentifierHeartRateVariabilitySDNN")
                THEN <<WarnNoHRV>> ELSE << >>)
            \o (IF ~SampledCarries("HKCategoryTypeIdentifierSleepAnalysis")
                THEN <<WarnNoSleep>> ELSE << >>)
            \o <<PrivacyNotice>>

\* The labels of data_types.
ReportedTypes == {out.dataTypes[j] : j \in 1..Len(out.dataTypes)}

\* The Record openers of the document behind the first SampleCap.
LaterOpeners ==
    LET all == BlocksRecordMatches(file)
    IN  {all[j] : j \in (SampleCap + 1)..Len(all)}

\* C18: only the first 1000 matched Record openers give data_types their
\* labels: the Sleep-Analysis type carried by later openers only is absent
\* from data_types and reported as not found, while the later openers are
\* counted in records_processed and their startDate values are within the
\* date range.
C18_OnlyFirstThousandSampled ==
    ScanDone =>
        /\ "Sleep Analysis" \in ReportedTypes
              <=> SampledCarries("HKCategoryTypeIdentifierSleepAnalysis")
        /\ "Step Count" \in ReportedTypes
              <=> SampledCarries("HKQuantityTypeIdentifierStepCount")
        /\ ~SampledCarries("HKCategoryTypeIdentifierSleepAnalysis")
              => WarnNoSleep \in {out.warnings[j] : j \in 1..Len(out.warnings)}
        /\ ~SampledCarries("HKQuantityTypeIdentifierHeartRateVariabilitySDNN")
              => WarnNoHRV \in {out.warnings[j] : j \in 1..Len(out.warnings)}
        /\ out.recordCount >= Len(BlocksRecordMatches(file))
        /\ \A opener \in LaterOpeners :
              \A v \in StartDateValuesIn(opener) \ {""} :
                  /\ ~StrLess(DayPortion(v), out.dateRange.start)
                  /\ ~StrLess(out.dateRange.end, DayPortion(v))

\* 1000 step-count Records stand ahead of the only Sleep-Analysis Record:
\* the scan counts 1001 records and starts the range at the day of the
\* last one, and reports neither the Sleep label nor Sleep data.
C18_Witness ==
    /\ ScanDone
    /\ file.head = "<HealthData>"
    /\ file.times = 1000
    /\ file.tail = "<Record type=\"HKCategoryTypeIdentifierSleepAnalysis\" startDate=\"2023-12-31 23:00:00 +0000\"/></HealthData>"
    /\ out.recordCount = 1001
    /\ out.dataTypes = <<"Step Count">>
    /\ out.dateRange.start = "2023-12-31"
    /\ WarnNoSleep \in {out.warnings[j] : j \in 1..Len(out.warnings)}

\* The night the report names is the j-th of the series.
IsNight(night, j) ==
    night = [date |-> series[j].date,
             score |-> series[j].sleep_score,
             duration |-> series[j].duration_hours]

\* C19: best_night is the night of the greatest sleep_score and
\* worst_night the night of the least, the earliest such night when
\* several share the score; date, score and duration are those of that
\* one night, and best_night.score >= worst_night.score.
C19_BestAndWorstNight ==
    SleepDone("pattern") =>
        /\ \E b \in 1..Len(series) :
              /\ \A j \in 1..Len(series) :
                    series[j].sleep_score <= series[b].sleep_score
              /\ \A j \in 1..(b - 1) :
                    series[j].sleep_score < series[b].sleep_score
              /\ IsNight(out.pattern.best_night, b)
        /\ \E w \in 1..Len(series) :
              /\ \A j \in 1..Len(series) :
                    series[j].sleep_score >= series[w].sleep_score
              /\ \A j \in 1..(w - 1) :
                    series[j].sleep_score > series[w].sleep_score
              /\ IsNight(out.pattern.worst_night, w)
        /\ out.pattern.best_night.score >= out.pattern.worst_night.score

\* The second and the third of three nights share the best score of 80:
\* the second, of 7.9 hours, is reported, the first is the worst.
C19_Witness ==
    /\ SleepDone("pattern")
    /\ Len(series) = 3
    /\ series[1].sleep_score = 60
    /\ series[2].sleep_score = 80
    /\ series[3].sleep_score = 80
    /\ series[2].duration_hours = Rat(79, 10)
    /\ series[3].duration_hours = Rat(8, 1)
    /\ out.pattern.best_night =
           [date |-> "2026-06-14", score |-> 80, duration |-> Rat(79, 10)]
    /\ out.pattern.worst_night.date = "2026-06-13"

\* t is Math.round of the population standard deviation of the whole
\* numbers: (2t - 1)^2 <= 4 variance < (2t + 1)^2, the variance being
\* (n Sum(v^2) - Sum(v)^2) / n^2.
IsRoundedDeviation(t, values) ==
    LET n  == Len(values)
        sq == IntSum([j \in 1..n |-> values[j] * values[j]])
        nv == n * sq - IntSum(values) * IntSum(values)
    IN  /\ t \in Nat
        /\ (t = 0 \/ (2 * t - 1) * (2 * t - 1) * n * n <= 4 * nv)
        /\ 4 * nv < (2 * t + 1) * (2 * t + 1) * n * n

\* C20: the consistency score is max(0, 100 - (bedtime_variance +
\* wake_time_variance) / 2), the variances being whole minutes, not
\* negative; the score is within 0..100, is 100 exactly when both
\* variances are 0, and is not larger for a series neither of whose
\* variances is smaller.
C20_ConsistencyScore ==
    SleepDone("consistency") =>
        LET c == out.consistency
        IN  /\ IsRoundedDeviation(c.bedtime_variance,
                    [j \in 1..Len(series) |-> timeToMinutes(series[j].bedtime)])
            /\ IsRoundedDeviation(c.wake_time_variance,
                    [j \in 1..Len(series) |-> timeToMinutes(series[j].wake_time)])
            /\ c.consistency_score =
                   (IF c.bedtime_variance + c.wake_time_variance >= 200
                    THEN Rat(0, 1)
                    ELSE Rat(200 - c.bedtime_variance - c.wake_time_variance, 2))
            /\ ~RatLess(c.consistency_score, Rat(0, 1))
            /\ ~RatLess(Rat(100, 1), c.consistency_score)
            /\ c.consistency_score = Rat(100, 1)
                  <=> (c.bedtime_variance = 0 /\ c.wake_time_variance = 0)
            /\ \A other \in SleepSeriesSet :
                  LET o == calculateSleepConsistency(other)
                  IN  (/\ o.bedtime_variance >= c.bedtime_variance
                       /\ o.wake_time_variance >= c.wake_time_variance)
                          => ~RatLess(c.consistency_score, o.consistency_score)

\* Bedtimes of 22:00 and 00:59 deviate by 631 minutes: 100 less the mean
\* of the two variances is negative, and the score is 0.
C20_Witness ==
    /\ SleepDone("consistency")
    /\ Len(series) = 2
    /\ series[1].bedtime = "22:00"
    /\ series[2].bedtime = "00:59"
    /\ out.consistency.bedtime_variance > 200
    /\ out.consistency.consistency_score = Rat(0, 1)

(***************************************************************************)
(* health hrv, health sleep, health import and the root command of the    *)
(* plain-JavaScript entry point                                            *)
(***************************************************************************)

\* What a call came to: the value it returned, or the exception it threw.
Returned(response, r) ==
    [threw |-> FALSE, response |-> response, message |-> "", rng |-> r]

Thrown(message, r) ==
    [threw |-> TRUE, response |-> NoValue, message |-> message, rng |-> r]

\* The message of the TypeError that reading .date of undefined raises.
UndefinedDateMessage == "Cannot read properties of undefined (reading 'date')"

\* A number in a template literal: an integer, or a number of tenths.
NumberString(x) ==
    IF ~IsFinite(x) THEN (IF x.n = 0 THEN "NaN" ELSE "Infinity")
    ELSE IF x.d = 1 THEN ToString(x.n)
    ELSE LET t == (10 * x.n) \div x.d
         IN  ToString(t \div 10) \o "." \o ToString(t % 10)

\* days < 1 || days > 90 on a JavaScript number: false for NaN.
DaysOutOfRangePlain(d) == RatLess(d, Rat(1, 1)) \/ RatLess(Rat(90, 1), d)

\* The INVALID_DAYS_RANGE error of the plain hrvCommand and sleepCommand.
daysRangeErrorPlain(name, d, retry) ==
    error(name \o " --days " \o NumberString(d),
          "Days parameter must be between 1 and 90",
          "INVALID_DAYS_RANGE",
          "Use a value between 1 and 90 days",
          <<NextAction("health " \o name, "Use default 7 days"), retry>>)

\* The third next action of the plain hrvCommand and sleepCommand.
thirdActionPlain(n, monthly) == IF n = 7 THEN monthly ELSE COMMON_ACTIONS.ROOT

\* The result the plain hrvCommand builds from the series.
hrvResultPlain(n, hrvData, current) ==
    [period |-> [days |-> n,
                 start_date |-> hrvData[1].date,
                 end_date |-> current.date],
     current |-> [value |-> current.value,
                  category |-> current.category,
                  date |-> current.date],
     statistics |->
        [average |-> MathRound(Rat(IntSum(hrvValueList(hrvData)), Len(hrvData))),
         min |-> MinOf(hrvValueList(hrvData)),
         max |-> MaxOf(hrvValueList(hrvData))],
     data |-> SliceLast(hrvData, 10),
     insights |-> <<"Current HRV: " \o ToString(current.value) \o "ms ("
                    \o current.category \o ")">>]

hrvAnswerPlain(n, g) ==
    Returned(success("hrv --days " \o ToString(n),
                     hrvResultPlain(n, g.data, g.data[Len(g.data)]),
                     <<COMMON_ACTIONS.STATUS, COMMON_ACTIONS.SLEEP,
                       thirdActionPlain(n, NextAction("health hrv --days 30",
                                                      "View monthly trend"))>>),
             g.rng)

\* hrvCommand(days) of the plain-JavaScript entry point, days a JavaScript
\* number.  NaN passes the range test, the generator's loop does not run
\* and hrvData[0].date throws.
hrvCommandPlain(d, z, now, r) ==
    IF DaysOutOfRangePlain(d) THEN
        Returned(daysRangeErrorPlain("hrv", d,
                     NextAction("health hrv --days 14", "Try 2 weeks")), r)
    ELSE IF ~IsFinite(d) THEN Thrown(UndefinedDateMessage, r)
    ELSE hrvAnswerPlain(d.n, generateMockHRV(d.n, z, now, r))

\* The result the plain sleepCommand builds from the series.
sleepResultPlain(n, sleepData, lastNight, avgDuration) ==
    [period |-> [days |-> n,
                 start_date |-> sleepData[1].date,
                 end_date |-> lastNight.date],
     last_night |-> [duration |-> lastNight.duration_hours,
                     score |-> lastNight.sleep_score,
                     bedtime |-> lastNight.bedtime,
                     wake_time |-> lastNight.wake_time],
     averages |-> [duration |-> RoundToTenth(avgDuration),
                   score |-> MathRound(Rat(IntSum(scoreList(sleepData)), n))],
     data |-> SliceLast(sleepData, 10),
     insights |-> <<"Average sleep: " \o NumberString(RoundToTenth(avgDuration))
                    \o "h over " \o ToString(n) \o " days">>]

sleepAnswerPlain(n, g) ==
    Returned(success("sleep --days " \o ToString(n),
                     sleepResultPlain(n, g.data, g.data[Len(g.data)],
                         RatDiv(Sum(durationList(g.data)), Rat(n, 1))),
                     <<COMMON_ACTIONS.STATUS, COMMON_ACTIONS.HRV,
                       thirdActionPlain(n, NextAction("health sleep --days 30",
                                                      "View monthly pattern"))>>),
             g.rng)

\* sleepCommand(days) of the plain-JavaScript entry point.
sleepCommandPlain(d, z, now, r) ==
    IF DaysOutOfRangePlain(d) THEN
        Returned(daysRangeErrorPlain("sleep", d,
                     NextAction("health sleep --days 30", "Try 1 month")), r)
    ELSE IF ~IsFinite(d) THEN Thrown(UndefinedDateMessage, r)
    ELSE sleepAnswerPlain(d.n, generateMockSleep(d.n, z, now, r))

\* importCommand(filePath) of the plain-JavaScript entry point.
importCommandPlain(filePath) ==
    error("import " \o filePath,
          "Import functionality is a demo - not implemented in this simplified version",
          "NOT_IMPLEMENTED",
          "This demonstrates the CLI structure - full XML parsing would be implemented here",
          <<COMMON_ACTIONS.STATUS, COMMON_ACTIONS.ROOT>>)

\* rootCommand(): the self-description, its command table by the names of
\* the commands (the descriptive texts of the table are not represented).
rootCommand ==
    success("",
            [name |-> "health-cli",
             version |-> "1.0.0",
             commands |-> <<"health", "status", "hrv", "sleep", "alert", "import">>],
            <<COMMON_ACTIONS.STATUS, COMMON_ACTIONS.HRV,
              COMMON_ACTIONS.SLEEP, COMMON_ACTIONS.ALERTS>>)

(***************************************************************************)
(* The process: output, the plain-JavaScript entry point with its          *)
(* uncaughtException handler, and the entry point built on @effect/cli     *)
(***************************************************************************)

\* String.prototype.toLowerCase, on ASCII text.
LowerOf(c) ==
    IF c \in UpperChars THEN CharAt(AsciiHighChars, CodeOf(c) - 64) ELSE c

toLowerCase(s) == Concat([i \in 1..Len(s) |-> LowerOf(CharAt(s, i))])

DigitChars == {"0", "1", "2", "3", "4", "5", "6", "7", "8", "9"}

\* The value of the run of decimal digits of s that starts at i, after acc.
RECURSIVE DigitsFrom(_, _, _)
DigitsFrom(s, i, acc) ==
    IF i <= Len(s) /\ CharAt(s, i) \in DigitChars
    THEN DigitsFrom(s, i + 1, 10 * acc + DigitValue(CharAt(s, i)))
    ELSE acc

RECURSIVE SkipWhite(_, _)
SkipWhite(s, i) ==
    IF i <= Len(s) /\ CharAt(s, i) \in WhiteChars THEN SkipWhite(s, i + 1) ELSE i

\* parseInt(text) with no radix, on text without a 0x prefix: white space
\* skipped, a sign, then the digits up to the first other character; NaN
\* when no digit stands there.
parseInt(s) ==
    LET i == SkipWhite(s, 1)
        signed == i <= Len(s) /\ CharAt(s, i) \in {"+", "-"}
        p == IF signed THEN i + 1 ELSE i
    IN  IF ~(p <= Len(s) /\ CharAt(s, p) \in DigitChars) THEN NaN
        ELSE IF signed /\ CharAt(s, i) = "-"
        THEN Rat(0 - DigitsFrom(s, p, 0), 1)
        ELSE Rat(DigitsFrom(s, p, 0), 1)

\* args.indexOf(v), 1-based; 0 when absent.
ArgIndexOf(args, v) ==
    LET P == {j \in 1..Len(args) : args[j] = v}
    IN  IF P = {} THEN 0 ELSE CHOOSE j \in P : \A k \in P : j <= k

\* args[j] as a condition: the argument is there and is not the empty text.
Truthy(args, j) == j >= 1 /\ j <= Len(args) /\ args[j] # ""

\* The days the hrv and sleep branches of main hand to their command.
daysArgument(args) ==
    LET daysIndex == ArgIndexOf(args, "--days")
    IN  IF daysIndex # 0 /\ Truthy(args, daysIndex + 1)
        THEN parseInt(args[daysIndex + 1])
        ELSE Rat(7, 1)

\* main() up to its call of output: the envelope it hands to output, or the
\* exception that leaves it.
mainPlain(args, z, now, r) ==
    IF Len(args) = 0 THEN Returned(rootCommand, r)
    ELSE LET command == toLowerCase(args[1])
         IN  CASE command = "status" ->
                    Returned(statusCommandPlain(z, now, r).response,
                             statusCommandPlain(z, now, r).rng)
               [] command = "hrv" -> hrvCommandPlain(daysArgument(args), z, now, r)
               [] command = "sleep" -> sleepCommandPlain(daysArgument(args), z, now, r)
               [] command = "alert" ->
                    Returned(alertCommandPlain(z, now, r).response,
                             alertCommandPlain(z, now, r).rng)
               [] command = "import" ->
                    IF ~Truthy(args, 2)
                    THEN Returned(error("import", "Missing file path",
                                        "MISSING_FILE",
                                        "Usage: health import <file>",
                                        <<COMMON_ACTIONS.ROOT>>), r)
                    ELSE Returned(importCommandPlain(args[2]), r)
               [] OTHER ->
                    Returned(error(command, "Unknown command: " \o command,
                                   "UNKNOWN_COMMAND",
                                   "Run health to see available commands",
                                   <<COMMON_ACTIONS.ROOT>>), r)

\* The envelope the uncaughtException handler of the plain entry point
\* hands to output.
uncaughtExceptionResponse(message) ==
    [ok |-> FALSE,
     command |-> "health",
     error |-> [message |-> message, code |-> "UNCAUGHT_EXCEPTION"],
     fix |-> "Report this error to the maintainers",
     next_actions |-> <<COMMON_ACTIONS.ROOT>>]

\* What the process has printed is a sequence of documents: a JSON text,
\* represented by the value it encodes, or a text that is not JSON.
JSONDocument(response) == [json |-> TRUE, value |-> response]

PlainText(text) == [json |-> FALSE, value |-> text]

\* The process at its start: nothing printed, nothing thrown, no exit code.
Running == [stdout |-> << >>, thrown |-> "", code |-> NoValue]

\* output(response): console.log(JSON.stringify(response, null, 2)), then
\* process.exit(response.ok ? 0 : 1).
output(response, o) ==
    [o EXCEPT !.stdout = Append(@, JSONDocument(response)),
              !.code = IF response.ok THEN 0 ELSE 1]

\* Whether text is what Options.integer accepts: a sign and digits only.
IsIntegerText(s) ==
    LET p == IF Len(s) >= 1 /\ CharAt(s, 1) = "-" THEN 2 ELSE 1
    IN  /\ p <= Len(s)
        /\ \A j \in p..Len(s) : CharAt(s, j) \in DigitChars

\* The command line against the commands index.ts declares: health with
\* the subcommands status, hrv [--days n], sleep [--days n], alert and
\* import <file>, days an integer with default 7 and file a file that
\* exists.  A command line the declarations do not admit reaches no handler.
cliCommandOf(args, f) ==
    LET bare(name) == args = <<name>>
        withDays(name) ==
            /\ Len(args) = 3
            /\ args[1] = name
            /\ args[2] = "--days"
            /\ IsIntegerText(args[3])
    IN  CASE args = << >> -> [valid |-> TRUE, name |-> "health", days |-> 7]
          [] bare("status") \/ bare("alert") ->
                [valid |-> TRUE, name |-> args[1], days |-> 7]
          [] bare("hrv") \/ bare("sleep") ->
                [valid |-> TRUE, name |-> args[1], days |-> 7]
          [] withDays("hrv") \/ withDays("sleep") ->
                [valid |-> TRUE, name |-> args[1], days |-> parseInt(args[3]).n]
          [] Len(args) = 2 /\ args[1] = "import" /\ f # NoValue /\ f.exists ->
                [valid |-> TRUE, name |-> "import", days |-> 7]
          [] OTHER -> [valid |-> FALSE, name |-> "", days |-> 7]

\* The handler of the command the command line names: what it hands to
\* output.
cliHandler(c, f, z, now, r) ==
    CASE c.name = "health" -> [response |-> rootCommand, rng |-> r]
      [] c.name = "status" -> statusCommand(z, now, r)
      [] c.name = "hrv" -> hrvCommand(c.days, z, now, r)
      [] c.name = "sleep" -> sleepCommand(c.days, z, now, r)
      [] c.name = "alert" -> alertCommand(z, now, r)
      [] c.name = "import" -> [response |-> importCommand(f), rng |-> r]

(***************************************************************************)
(* One process per invocation                                              *)
(***************************************************************************)

\* Command lines: every command with and without arguments, in other
\* letter case, with days in range, out of range, not a number and
\* missing, with and without a file, and words that name no command.
ArgLists ==
    {<< >>, <<"status">>, <<"STATUS">>, <<"alert">>, <<"hrv">>, <<"sleep">>,
     <<"hrv", "--days", "14">>, <<"hrv", "--days", "0">>,
     <<"hrv", "--days", "abc">>, <<"hrv", "--days">>,
     <<"hrv", "--days", "-3">>, <<"hrv", "--days", "7 days">>,
     <<"sleep", "--days", "2">>, <<"sleep", "--days", "91">>,
     <<"sleep", "--days", "x">>, <<"sleep", "--days", "">>,
     <<"import">>, <<"import", "export.xml">>, <<"import", "backup/export.xml">>,
     <<"bogus">>, <<"--help-me">>}

EntryPoints == {"plain", "effect"}

\* The file system under the paths the command lines name.
CliFiles ==
    {f \in Files : f.size # MaxFileBytes /\ f.content \in {Section86Doc, Section87Doc}}

CliClocks == {Instant(20619 * MinutesPerDay + m, 0) : m \in {30, 1410}}

\* Tapes of the random source: every draw the least value, every draw the
\* greatest of the scale, and mixed ones.
CliTapes == {<<0>>, <<3>>, <<1>>, <<3, 2, 1, 0, 2>>}

InitCli ==
    /\ pc = "start"
    /\ argv \in [entry : EntryPoints, args : ArgLists]
    /\ file \in IF Len(argv.args) = 2 /\ argv.args[1] = "import"
                THEN {f \in CliFiles : f.path = argv.args[2]}
                ELSE {NoValue}
    /\ clock \in CliClocks
    /\ tz \in Zones
    /\ rng \in [tape : CliTapes, pos : {0}]
    /\ days = NoValue
    /\ series = NoValue
    /\ out = Running

\* node health-cli.js <args>: main() runs to its call of output, which
\* prints the envelope and exits, or to the exception that leaves it.
Main ==
    /\ pc = "start"
    /\ argv.entry = "plain"
    /\ LET m == mainPlain(argv.args, tz, clock, rng)
       IN  /\ rng' = m.rng
           /\ IF m.threw
              THEN /\ out' = [out EXCEPT !.thrown = m.message]
                   /\ pc' = "threw"
              ELSE /\ out' = output(m.response, out)
                   /\ pc' = "exited"
    /\ UNCHANGED <<days, clock, tz, file, series, argv>>

\* process.on('uncaughtException'): the handler prints its envelope and
\* exits.
UncaughtException ==
    /\ pc = "threw"
    /\ out' = output(uncaughtExceptionResponse(out.thrown), out)
    /\ pc' = "exited"
    /\ UNCHANGED <<days, clock, tz, rng, file, series, argv>>

\* Effect.runPromise(cli(process.argv)): the handler of the command named
\* runs and calls output; a command line that names none reaches no
\* handler, the library prints its own message and the promise rejects.
RunCli ==
    /\ pc = "start"
    /\ argv.entry = "effect"
    /\ LET c == cliCommandOf(argv.args, file)
       IN  IF c.valid
           THEN LET h == cliHandler(c, file, tz, clock, rng)
                IN  /\ out' = output(h.response, out)
                    /\ rng' = h.rng
                    /\ pc' = "exited"
           ELSE /\ out' = [out EXCEPT
                             !.stdout = Append(@, PlainText("validation error"))]
                /\ rng' = rng
                /\ pc' = "rejected"
    /\ UNCHANGED <<days, clock, tz, file, series, argv>>

\* .catch(() => { process.exit(1) })
CatchRejection ==
    /\ pc = "rejected"
    /\ out' = [out EXCEPT !.code = 1]
    /\ pc' = "exited"
    /\ UNCHANGED <<days, clock, tz, rng, file, series, argv>>

NextCli == Main \/ UncaughtException \/ RunCli \/ CatchRejection

SpecCli == InitCli /\ [][NextCli]_vars

\* C16: every invocation prints exactly one JSON envelope and exits: the
\* envelope is a success with result and next_actions or a failure with
\* error {message, code}, fix and next_actions, the exit code is 0 exactly
\* when ok is true and 1 otherwise, and nothing else is printed.
C16_OneEnvelopeThenExit ==
    pc = "exited" =>
        /\ Len(out.stdout) = 1
        /\ out.stdout[1].json
        /\ LET e == out.stdout[1].value
           IN  /\ e.ok \in BOOLEAN
               /\ e.ok => DOMAIN e = {"ok", "command", "result", "next_actions"}
               /\ ~e.ok =>
                    /\ DOMAIN e = {"ok", "command", "error", "fix", "next_actions"}
                    /\ DOMAIN e.error = {"message", "code"}
               /\ out.code = IF e.ok THEN 0 ELSE 1

\* Every invocation of the plain-JavaScript entry point ends with one
\* envelope and the exit code that belongs to it.
PlainOneEnvelopeThenExit == argv.entry = "plain" => C16_OneEnvelopeThenExit

\* The uncaught exception of the plain entry point is reported in an envelope.
UncaughtReported ==
    /\ pc = "exited"
    /\ out.thrown # ""
    /\ out.stdout[1].value.error.code = "UNCAUGHT_EXCEPTION"
    /\ out.code = 1

\* 100 MB in bytes.
HundredMB == 100 * 1024 * 1024

\* The error code of a response, "" for a success.
ErrorCodeOf(response) == IF response.ok THEN "" ELSE response.error.code

\* C21: importCommand reports the first precondition that fails: a missing
\* file is FILE_NOT_FOUND, an existing file over 100 MB is FILE_TOO_LARGE
\* whether or not it could be read, a file of 100 MB or less is read and
\* scanned and a failure of either is PARSE_ERROR; an error carries no
\* result.
C21_FirstFailureReported ==
    pc = "done" =>
        /\ ~file.exists => ErrorCodeOf(out) = "FILE_NOT_FOUND"
        /\ (file.exists /\ file.size > HundredMB) =>
                ErrorCodeOf(out) = "FILE_TOO_LARGE"
        /\ (file.exists /\ file.size <= HundredMB) =>
                IF ~file.readable \/ parseAppleHealthXML(file.content).threw
                THEN ErrorCodeOf(out) = "PARSE_ERROR"
                ELSE out.ok /\ out.result.file = Basename(file.path)
        /\ ~out.ok => "result" \notin DOMAIN out

\* A file of exactly 100 MB was read and scanned.
C21_Witness ==
    /\ pc = "done"
    /\ file.exists
    /\ file.size = HundredMB
    /\ file.readable
    /\ out.ok
    /\ out.result.records_processed > 0

\* The lines of the lookup table: the metric's line of each tier.
TierTable ==
    [immediate |->
        [m \in {"HRV", "Sleep Duration", "Daily Steps"} |->
            CASE m = "HRV" -> "Take a rest day or reduce training intensity"
              [] m = "Sleep Duration" -> "Prioritize earlier bedtime tonight"
              [] m = "Daily Steps" -> "Take breaks for short walks throughout the day"],
     short_term |->
        [m \in {"HRV", "Sleep Duration", "Daily Steps"} |->
            CASE m = "HRV" -> "Focus on stress management and recovery practices"
              [] m = "Sleep Duration" -> "Establish consistent sleep schedule"
              [] m = "Daily Steps" -> "Incorporate more movement into daily routine"],
     long_term |->
        [m \in {"HRV", "Sleep Duration", "Daily Steps"} |->
            CASE m = "HRV" -> "Evaluate training load and recovery balance"
              [] m = "Sleep Duration" -> "Optimize sleep environment and hygiene"
              [] m = "Daily Steps" -> "Set progressive activity goals"]]

FallbackTriple ==
    [immediate |-> "All metrics within normal ranges - maintain current habits",
     short_term |-> "Continue monitoring trends for early detection",
     long_term |-> "Consider expanding health tracking metrics"]

TierNames == {"immediate", "short_term", "long_term"}

\* The metrics of the thresholds that are warning or critical, in the order
\* of all_thresholds.
TriggeredMetrics ==
    LET IsTriggered(a) == a.status \in {"warning", "critical"}
        triggered == SelectSeq(out.result.all_thresholds, IsTriggered)
    IN  [j \in 1..Len(triggered) |-> triggered[j].metric]

\* Whether q holds no string twice.
NoDuplicates(q) == \A i, j \in 1..Len(q) : q[i] = q[j] => i = j

\* C22: in the alert result the three tiers have the same length and no
\* tier holds a string twice; every triggered metric gives one line to each
\* tier, in the order HRV, Sleep Duration, Daily Steps; and the fallback
\* triple stands exactly when no metric is warning or critical.
C22_TiersAlignedAndDistinct ==
    AlertListed =>
        LET rec == out.result.recommendations
            triggered == TriggeredMetrics
        IN  /\ [j \in 1..3 |-> out.result.all_thresholds[j].metric]
                  = <<"HRV", "Sleep Duration", "Daily Steps">>
            /\ \A t \in TierNames :
                  /\ Len(rec[t]) = Len(rec.immediate)
                  /\ NoDuplicates(rec[t])
                  /\ triggered # << >> =>
                        rec[t] = [j \in 1..Len(triggered) |->
                                     TierTable[t][triggered[j]]]
                  /\ (\E j \in 1..Len(rec[t]) : rec[t][j] = FallbackTriple[t])
                        <=> triggered = << >>
                  /\ triggered = << >> => rec[t] = <<FallbackTriple[t]>>

\* Sleep Duration and Daily Steps triggered, HRV did not: two lines per
\* tier, the sleep line first.
C22_Witness ==
    /\ AlertListed
    /\ TriggeredMetrics = <<"Sleep Duration", "Daily Steps">>
    /\ Len(out.result.recommendations.long_term) = 2
    /\ out.result.recommendations.immediate[1] = "Prioritize earlier bedtime tonight"

\* The thresholds of the result that are not ok, in their order, each with
\* the fields an active alert repeats.
NotOkThresholds ==
    LET NotOk(a) == a.status # "ok"
        listed == SelectSeq(out.result.all_thresholds, NotOk)
    IN  [j \in 1..Len(listed) |->
            [metric |-> listed[j].metric,
             status |-> listed[j].status,
             current_value |-> listed[j].current,
             threshold |-> listed[j].threshold,
             message |-> listed[j].message]]

\* The active alerts of the result without their priority.
ActiveAlertsListed ==
    [j \in 1..Len(out.result.active_alerts) |->
        [f \in {"metric", "status", "current_value", "threshold", "message"} |->
            out.result.active_alerts[j][f]]]

\* The counts of the summary agree with the two lists of the result.
AlertPartition ==
    LET summary == out.result.alert_summary
    IN  /\ summary.total_checks = 3
        /\ Len(out.result.all_thresholds) = 3
        /\ summary.active_alerts + summary.ok = summary.total_checks
        /\ summary.warnings + summary.critical = summary.active_alerts
        /\ summary.active_alerts = Len(out.result.active_alerts)
        /\ ActiveAlertsListed = NotOkThresholds
        /\ [j \in 1..3 |-> out.result.all_thresholds[j].metric]
              = <<"HRV", "Sleep Duration", "Daily Steps">>

\* C23: every alert result partitions its three checks: total_checks is 3
\* and is the length of all_thresholds, active_alerts + ok is total_checks,
\* warnings + critical is active_alerts and is the length of the list of
\* active alerts, and that list is the thresholds that are not ok, in the
\* order HRV, Sleep Duration, Daily Steps.
C23_ChecksPartitioned ==
    AlertDone =>
        /\ "all_thresholds" \in DOMAIN out.result
        /\ {"ok", "critical"} \subseteq DOMAIN out.result.alert_summary
        /\ AlertPartition

\* The alert check of commands/alert partitions its three checks.
ListedChecksPartitioned == AlertListed => AlertPartition

\* The alert check of commands/alert with two of its thresholds not ok.
TwoOfThreeActive ==
    /\ AlertListed
    /\ out.result.alert_summary.active_alerts = 2
    /\ out.result.alert_summary.ok = 1

\* health hrv has answered with a report.
HrvReported ==
    /\ pc = "done"
    /\ out.command = "health hrv --days " \o ToString(days)
    /\ out.ok

\* The samples the generator returned to the command that has answered:
\* those it draws from the random source as it stood at the start.
GeneratedHRV == generateMockHRV(days, tz, clock, [rng EXCEPT !.pos = 0]).data

\* The report agrees with the samples g it was built from.
HrvReportOf(g) ==
    LET r == out.result
        kept == IF days < 10 THEN days ELSE 10
    IN  /\ Len(g) = days
        /\ r.distribution.low + r.distribution.normal + r.distribution.high = days
        /\ Len(r.data) = kept
        /\ \A j \in 1..kept : r.data[j] = g[days - kept + j]
        /\ r.current = [value |-> g[days].value,
                        category |-> g[days].category,
                        date |-> g[days].date]
        /\ r.period = [days |-> days,
                       start_date |-> g[1].date,
                       end_date |-> g[days].date]
        /\ r.statistics.min <= r.statistics.average
        /\ r.statistics.average <= r.statistics.max

\* C24: in every successful HRV report for days = n in 1..90 the three
\* counts of the distribution add up to n, data is the last min(n, 10)
\* generated samples oldest first, current is the last generated sample,
\* the period runs from the first sample's date to the last's, and
\* statistics.min <= statistics.average <= statistics.max.
C24_ReportAgreesWithSamples == HrvReported => HrvReportOf(GeneratedHRV)

\* A report over 30 days shows the last ten samples, values of the window
\* differing.
C24_Witness ==
    /\ HrvReported
    /\ days = 30
    /\ Len(out.result.data) = 10
    /\ out.result.distribution.normal = 30
    /\ out.result.statistics.min < out.result.statistics.max
    /\ out.result.data[1].date # out.result.period.start_date

(***************************************************************************)
(* calculateAverageTime on lists of times of its own                       *)
(***************************************************************************)

MaxTimes == 3

\* Times of day either side of midnight and of noon.
TimeTexts == {"00:00", "00:01", "01:00", "11:59", "12:00", "22:30", "23:00", "23:59"}

TimeLists == UNION {[1..n -> TimeTexts] : n \in 1..MaxTimes}

InitAverageTime ==
    /\ pc = "start"
    /\ series \in TimeLists
    /\ days = NoValue
    /\ clock = NoValue
    /\ tz = NoValue
    /\ rng = NoValue
    /\ file = NoValue
    /\ argv = NoValue
    /\ out = NoValue

\* calculateAverageTime(series)
CalculateAverageTime ==
    /\ pc = "start"
    /\ out' = calculateAverageTime(series)
    /\ pc' = "done"
    /\ UNCHANGED <<days, clock, tz, rng, file, series, argv>>

NextAverageTime == CalculateAverageTime

SpecAverageTime == InitAverageTime /\ [][NextAverageTime]_vars

\* The minute of the day of each time of TimeTexts.
MinuteOfDay ==
    [t \in TimeTexts |->
        CASE t = "00:00" -> 0
          [] t = "00:01" -> 1
          [] t = "01:00" -> 60
          [] t = "11:59" -> 719
          [] t = "12:00" -> 720
          [] t = "22:30" -> 1350
          [] t = "23:00" -> 1380
          [] t = "23:59" -> 1439]

RECURSIVE TotalMinutes(_, _)
TotalMinutes(times, j) ==
    IF j > Len(times) THEN 0 ELSE MinuteOfDay[times[j]] + TotalMinutes(times, j + 1)

\* The arithmetic mean of the minutes of the day, halves rounded up.
MeanMinute(times) == (2 * TotalMinutes(times, 1) + Len(times)) \div (2 * Len(times))

\* n in two digits.
TwoDigits(n) == ToString(n \div 10) \o ToString(n % 10)

\* C25: calculateAverageTime returns the arithmetic mean of the minutes
\* since midnight, rounded to a whole minute, as zero-padded HH:MM, with no
\* correction across midnight: "23:00" and "01:00" give "12:00", not
\* "00:00"; the hour is in 00..23 and the minute in 00..59.
C25_PlainMeanOfMinutes ==
    pc = "done" =>
        LET mean == MeanMinute(series)
        IN  /\ out = TwoDigits(mean \div 60) \o ":" \o TwoDigits(mean % 60)
            /\ mean \div 60 \in 0..23
            /\ mean % 60 \in 0..59
            /\ Len(out) = 5
            /\ series \in {<<"23:00", "01:00">>, <<"01:00", "23:00">>}
                  => out = "12:00"

\* The mean of 23:00 and 01:00 came out as noon.
C25_Witness ==
    /\ pc = "done"
    /\ series = <<"23:00", "01:00">>
    /\ out = "12:00"

\* The distinct Record openers the scanner samples for their type.
SampledOpeners ==
    LET sample == SliceHead(BlocksRecordMatches(file), SampleCap)
    IN  {sample[j] : j \in 1..Len(sample)}

TypeAttributeKey == " type=\""

\* The opener has an attribute named type.
HasTypeAttribute(opener) == Includes(opener, TypeAttributeKey)

\* The value of the opener's attribute named type: what stands between its
\* quotes, which may be nothing.
TypeAttributeOf(opener) ==
    LET v == IndexOfFrom(opener, TypeAttributeKey, 1) + Len(TypeAttributeKey)
        q == IndexOfFrom(opener, "\"", v)
    IN  IF q = 0 THEN SubSeq(opener, v, Len(opener)) ELSE SubSeq(opener, v, q - 1)

\* The places of the opener where type=" stands before at least one
\* character that is no quote and a closing quote follows.
TypeValueStarts(opener) ==
    {v \in 7..Len(opener) :
        /\ SubSeq(opener, v - 6, v - 1) = "type=\""
        /\ CharAt(opener, v) # "\""
        /\ \E q \in (v + 1)..Len(opener) : CharAt(opener, q) = "\""}

\* What stands between the first of these places and the next quote.
FirstTypeValue(opener) ==
    LET v == CHOOSE x \in TypeValueStarts(opener) :
                 \A y \in TypeValueStarts(opener) : x <= y
    IN  SubSeq(opener, v, IndexOfFrom(opener, "\"", v) - 1)

\* data_types ascends strictly in the order of the code units.
TypesAscending ==
    \A j \in 1..(Len(out.dataTypes) - 1) :
        StrLess(out.dataTypes[j], out.dataTypes[j + 1])

\* C26 as stated: data_types is sorted ascending without duplicates, every
\* label is the simplification of the type attribute of a sampled Record
\* opener, and every sampled Record opener that has a type attribute has
\* its simplified label in the list.
C26_LabelsOfTypeAttributes ==
    ScanDone =>
        /\ TypesAscending
        /\ \A label \in ReportedTypes :
              \E opener \in SampledOpeners :
                  /\ HasTypeAttribute(opener)
                  /\ label = SimplifyType(TypeAttributeOf(opener))
        /\ \A opener \in SampledOpeners :
              HasTypeAttribute(opener)
                  => SimplifyType(TypeAttributeOf(opener)) \in ReportedTypes

\* C26, amended: data_types is sorted ascending without duplicates and is
\* exactly the simplifications of the first non-empty quoted value that
\* follows the text type=" in a sampled Record opener; an opener without
\* such a value, and an opener that is no Record opener, gives no label.
C26_LabelsOfFirstTypeValues ==
    ScanDone =>
        /\ TypesAscending
        /\ ReportedTypes =
              {SimplifyType(FirstTypeValue(opener)) :
                  opener \in {o \in SampledOpeners : TypeValueStarts(o) # {}}}

\* A scan that reports three labels: one of the head's Record, one of the
\* repeated Record and one of the tail's Record.
C26_Witness ==
    /\ ScanDone
    /\ Len(out.dataTypes) = 3
    /\ file.times = 2
    /\ out.dataTypes[3] = "Step Count"
    /\ out.dataTypes[2] = "Sleep Analysis"

\* A Record whose type attribute is empty gave no label.
EmptyTypeUnlabelled ==
    /\ ScanDone
    /\ file.times = 2
    /\ \E opener \in SampledOpeners : Includes(opener, " type=\"\"")
    /\ "" \notin ReportedTypes

\* A Record without a type attribute gave the label of its subtype.
SubtypeLabelled ==
    /\ ScanDone
    /\ "Extra" \in ReportedTypes
    /\ \A opener \in SampledOpeners : ~Includes(opener, " type=\"Extra\"")

\* The envelope the process printed before it exited with code 0.
Printed == out.stdout[1].value

\* The process has run command to its exit and printed its result.
Answered(command) ==
    /\ pc = "exited"
    /\ Len(out.stdout) = 1
    /\ out.stdout[1].json
    /\ Printed.command = command
    /\ Printed.ok

\* C27: on generated data no alert fires: every run of the status command
\* has an empty alerts list and the HRV category normal; every run of the
\* alert command has its three thresholds ok, no active alert and the
\* 'within normal ranges' fallback as its recommendations.
C27_NoAlertOnGeneratedData ==
    /\ Answered("health status") =>
          /\ Printed.result.alerts = << >>
          /\ Printed.result.hrv.category = "normal"
          /\ Printed.result.hrv.current \in 35..55
          /\ ~RatLess(Printed.result.sleep.last_night_hours, Rat(13, 2))
          /\ Printed.result.activity.steps \in 8500..11499
    /\ Answered("health alert") =>
          /\ Printed.result.active_alerts = << >>
          /\ Printed.result.alert_summary.active_alerts = 0
          /\ IF argv.entry = "effect"
             THEN /\ Len(Printed.result.all_thresholds) = 3
                  /\ \A j \in 1..3 : Printed.result.all_thresholds[j].status = "ok"
                  /\ Printed.result.recommendations =
                        [t \in TierNames |-> <<FallbackTriple[t]>>]
             ELSE Printed.result.recommendations
                        = <<"All metrics within normal ranges">>

\* The alert command ran on the least values the generators can draw: HRV
\* 35, 6.5 hours of sleep and 8500 steps, all three ok.
C27_Witness ==
    /\ Answered("health alert")
    /\ argv.entry = "effect"
    /\ rng.tape = <<0>>
    /\ Printed.result.all_thresholds[1].current = Rat(35, 1)
    /\ Printed.result.all_thresholds[2].current = Rat(13, 2)
    /\ Printed.result.all_thresholds[3].current = Rat(8500, 1)
    /\ Printed.result.alert_summary.ok = 3

\* analyzeHRVTrend has answered for a series of three or more whole values.
HRVTrendDone == pc = "done" /\ out.kind = "hrv" /\ Len(series) >= 3

\* C28: the fields analyzeHRVTrend reports agree with each other for every
\* series of three or more whole values: direction is stable exactly when
\* the reported change is under 2 in size, significance is none exactly
\* when direction is stable, and significance is significant exactly when
\* the reported change is over 5 in size.
C28_TrendFieldsConsistent ==
    HRVTrendDone =>
        /\ out.trend.direction = "stable" <=> Abs(out.trend.change) < 2
        /\ out.trend.significance = "none" <=> out.trend.direction = "stable"
        /\ out.trend.significance = "significant" <=> Abs(out.trend.change) > 5

\* Direction and significance follow the change before it is rounded: the
\* difference of the two means of three.
TrendFollowsExactChange ==
    HRVTrendDone =>
        LET k == (series[Len(series)].n + series[Len(series) - 1].n
                    + series[Len(series) - 2].n)
                 - (series[1].n + series[2].n + series[3].n)
        IN  /\ out.trend.direction = "stable" <=> Abs(k) < 6
            /\ out.trend.significance = "none" <=> out.trend.direction = "stable"
            /\ out.trend.significance = "significant" <=> Abs(k) > 15

\* A series whose last three values exceed its first three by 5 in sum is
\* reported stable with change 2.
StableReportedAsTwo ==
    /\ HRVTrendDone
    /\ series = <<Rat(0, 1), Rat(0, 1), Rat(0, 1), Rat(5, 1), Rat(0, 1), Rat(0, 1)>>
    /\ out.trend.direction = "stable"
    /\ out.trend.change = 2

PlainDaysInvocation ==
    /\ argv.entry = "plain"
    /\ Len(argv.args) >= 1
    /\ toLowerCase(argv.args[1]) \in {"hrv", "sleep"}

\* Nothing stands behind --days, or --days is not given.
NoDaysValue == argv.args \in {<<"hrv">>, <<"sleep">>, <<"hrv", "--days">>,
                              <<"sleep", "--days">>, <<"hrv", "--days", "">>,
                              <<"sleep", "--days", "">>}

\* C30: in the router of the plain-JavaScript entry point every hrv or
\* sleep invocation, whatever follows --days, ends in a success envelope
\* whose period.days is in 1..90 (7 when --days has no value) and whose
\* series is not empty, or in an error envelope with code
\* INVALID_DAYS_RANGE; no exception leaves the command and none is
\* reported as UNCAUGHT_EXCEPTION.
C30_DaysAlwaysHandled ==
    PlainDaysInvocation =>
        /\ pc # "threw"
        /\ pc = "exited" =>
              IF Printed.ok
              THEN /\ Printed.result.period.days \in 1..90
                   /\ NoDaysValue => Printed.result.period.days = 7
                   /\ Len(Printed.result.data) >= 1
              ELSE Printed.error.code = "INVALID_DAYS_RANGE"

\* Every hrv or sleep invocation whose --days value begins with a number,
\* or has no value, is handled.
NumericDaysHandled ==
    (PlainDaysInvocation /\ IsFinite(daysArgument(argv.args)))
        => C30_DaysAlwaysHandled

\* health hrv --days abc ended in the UNCAUGHT_EXCEPTION envelope.
NonNumericDaysUncaught ==
    /\ pc = "exited"
    /\ argv = [entry |-> "plain", args |-> <<"hrv", "--days", "abc">>]
    /\ Printed.error.code = "UNCAUGHT_EXCEPTION"
    /\ out.code = 1

=============================================================================
